---- MODULE Spec2Model ----
(***************************************************************************)
(* A model of fishingboat, a scale-to-zero TCP reverse proxy for docker    *)
(* containers (src/fishingboat.go) and of its keyed mutex (src/mutexmap.go)*)
(*                                                                         *)
(* Goroutines: one HandleConnection goroutine per accepted connection      *)
(* (Handlers) and the reaper goroutine running CleanUpContainers (Reaper). *)
(* Every critical section of ServerLock, of TrackedResourcesLock and of    *)
(* the registry mutex of MutexMap is one atomic step; every docker API     *)
(* call is one atomic step of the docker daemon, and the goroutines        *)
(* interleave between those steps.                                         *)
(***************************************************************************)
EXTENDS Integers, FiniteSets, Sequences, TLC

\* ------------------------------------------------------------ bounds
\* number of HandleConnection goroutines that can be live at once
NumHandlers == 2
\* number of goroutines of the MutexMap client harness (MMSpec)
NumClients == 3
\* the readiness wait polls ReadinessPolls times (int(checkTimeout/checkFreq) in the
\* source, 100, scaled down)
ReadinessPolls == 2
\* number of connections accepted in a run
MaxAccepts == 2

\* ------------------------------------------------------------ goroutines
Reaper == 0
Handlers == 1..NumHandlers
Procs == {Reaper} \cup Handlers
Clients == 1..NumClients
Goroutines == Procs \cup Clients
NoProc == -1

\* ------------------------------------------------------------ configuration
\* Config.Services: two services; each fits the limits alone, both together do not
\* (scenario 3 of the specification: limits GPU 8, A asks GPU 8, B asks GPU 1)
Services == {"A", "B"}

\* Config.Resources.Limits
Limits == [MilliCPU |-> 4, MemoryMi |-> 8, GpuMemoryMi |-> 8]

\* Service.ResourceRequest
ResourceRequest(s) ==
    IF s = "A" THEN [MilliCPU |-> 2, MemoryMi |-> 4, GpuMemoryMi |-> 8]
               ELSE [MilliCPU |-> 1, MemoryMi |-> 1, GpuMemoryMi |-> 1]

\* Service.CoolDown, in ticks of the clock
CoolDown(s) == IF s = "A" THEN 1 ELSE 0

\* Service.Ports: one PortMapping per service
ContainerPort(s) == IF s = "A" THEN 80 ELSE 8080

\* whether Service.Config declares a Healthcheck (example_services.json: llama.cpp does)
HasHealthcheck(s) == s = "B"

\* the host ports FindOpenPort finds free in this model
PortChoices == {49152}
\* the host port a container left by an earlier run of the proxy is bound to
EarlierPort == 49153

VARIABLES
    pc,             \* position of every goroutine in its code
    ServiceConnCount,           \* Server.ServiceConnCount (NoCount: no entry)
    ServiceKillTime,            \* Server.ServiceKillTime, as time left until the
                                \* deadline (NoTime: no entry, Past: deadline before now)
    ServiceProxyHostPortMap,    \* Server.ServiceProxyHostPortMap
    TrackedResources,           \* Server.TrackedResources
    reserved,       \* history: how many reservations of the service TrackedResources
                    \* contains (additions less subtractions of its ResourceRequest)
    net,            \* history: how many times the current LaunchContainer / StopContainer
                    \* call of the goroutine has added the request of its service to
                    \* TrackedResources, less how many times it has subtracted it
    errMsg,         \* the text of the error that the check at the head of the
                    \* goroutine's call returned: the admission check of
                    \* LaunchContainer, the refusal of StopContainer (NoError: nil)
    docker,         \* the docker daemon: the container <service>-goscalezero
    app,            \* HandleConnection's app (its service); the reaper's container
    err,            \* the named result err of LaunchContainer / StopContainer
    polls,          \* the loop counter i of the readiness wait
    cont,           \* LaunchContainer's cont: the container ContainerList returned for
                    \* the name, as it was then (Absent: nil)
    backendHostPort,\* HandleConnection's backendHostPort
    toKill,         \* CleanUpContainers' toKill, what is left of it
    inspected,      \* the readiness wait's cont: what its last ContainerInspect returned
                    \* (NoInspect outside the wait loop)
    accounted,      \* history: LaunchContainer returned nil for the service and no
                    \* StopContainer has stopped its container since
    accepted,       \* the number of connections accepted so far
    ServerLock,     \* Server.ServerLock, a sync.RWMutex: its writer and its readers
    TrackedResourcesLock,   \* Server.TrackedResourcesLock, a sync.RWMutex
    fresh,          \* history: ServiceKillTime[s] was written after the reaper's snapshot
    stopCalled,     \* history: the reaper called StopContainer(s) after ServiceKillTime[s]
                    \* was last written, and has not yet deleted the entry
    mutexmap,       \* MutexMap.mutexmap: key -> entry (NoEntry: absent)
    entryCount,     \* entry.count of every allocated entry
    entryMutex,     \* entry.mutex of every allocated entry: its holder or NoProc
    mmMutex,        \* MutexMap.mutex: its holder or NoProc
    mmE,            \* the local e of a goroutine inside Lock or Unlock
    mmKey,          \* the key a goroutine passed to Lock / Unlock
    attemptPort,    \* FindOpenPort's attemptPort (NoPort outside a call)
    attempts,       \* FindOpenPort's loop counter i
    probed,         \* history: the ports the call has passed to net.Listen, in order
    found           \* what the call returned (NoResult: it has not returned)

findVars == <<attemptPort, attempts, probed, found>>
mmVars == <<mutexmap, entryCount, entryMutex, mmMutex, mmE, mmKey>>
srvVars == <<ServiceConnCount, ServiceKillTime, ServiceProxyHostPortMap, TrackedResources,
             reserved, net, errMsg, docker, app, err, polls, cont, backendHostPort, toKill,
             inspected, findVars, accounted, fresh, stopCalled, accepted, ServerLock,
             TrackedResourcesLock>>
vars == <<pc, ServiceConnCount, ServiceKillTime, ServiceProxyHostPortMap, TrackedResources,
          reserved, net, errMsg, docker, app, err, polls, cont, backendHostPort, toKill,
          inspected, findVars, accounted, fresh, stopCalled, accepted, ServerLock,
          TrackedResourcesLock, mutexmap, entryCount, entryMutex, mmMutex, mmE, mmKey>>

\* ------------------------------------------------------------ MutexMap
NoEntry == 0
NoKey == "nokey"
\* entries are heap objects: one per goroutine that can reference one, plus one
EntryIds == 1..(Cardinality(Goroutines) + 1)

\* an entry is garbage when neither the map nor a goroutine's local e points to it
Referenced(e) ==
    \/ \E k \in Services : mutexmap[k] = e
    \/ \E g \in Goroutines : mmE[g] = e

\* new(entry): the allocator returns an object nobody references
NewEntry == CHOOSE e \in EntryIds : ~Referenced(e) /\ \A f \in EntryIds : f < e => Referenced(f)

\* The part_000 revision of Lock keeps mm.mutex (defer) until e.mutex.Lock() returned
RegistryHolderWhileWaitingLegacy(g) == g
\* Lock: the closure of lines 26-36 has unlocked mm.mutex (defer, line 28) before
\* e.mutex.Lock() (line 37) is called
RegistryHolderWhileWaiting(g) == NoProc

\* A sub-lock acquire that does not wait for the holder
SubLockFreeBroken(e) == TRUE
\* sync.Mutex.Lock on the sub-lock returns only when the mutex is unlocked
SubLockFree(e) == entryMutex[e] = NoProc

\* MutexMap.Lock, lines 26-36: find or create the entry, count++
LockBookkeeping(g, key) ==
    /\ mmMutex = NoProc
    /\ LET e == IF mutexmap[key] = NoEntry THEN NewEntry ELSE mutexmap[key]
           c == IF mutexmap[key] = NoEntry THEN 0 ELSE entryCount[e]
       IN /\ mutexmap' = [mutexmap EXCEPT ![key] = e]
          /\ entryCount' = [entryCount EXCEPT ![e] = c + 1]
          /\ mmE' = [mmE EXCEPT ![g] = e]
    /\ mmKey' = [mmKey EXCEPT ![g] = key]
    /\ mmMutex' = RegistryHolderWhileWaiting(g)
    /\ UNCHANGED entryMutex

\* MutexMap.Lock, line 37: e.mutex.Lock()
LockAcquire(g) ==
    /\ mmE[g] # NoEntry
    /\ SubLockFree(mmE[g])
    /\ entryMutex' = [entryMutex EXCEPT ![mmE[g]] = g]
    /\ mmE' = [mmE EXCEPT ![g] = NoEntry]
    /\ mmMutex' = IF mmMutex = g THEN NoProc ELSE mmMutex
    /\ UNCHANGED <<mutexmap, entryCount, mmKey>>

\* An Unlock that evicts only below zero, and so keeps the entry of the last holder
EvictBelowZero(count) == count < 0
\* An Unlock that evicts the entry whatever its count
EvictAlways(count) == TRUE
\* MutexMap.Unlock, line 51: the entry is evicted when nobody holds or awaits it
Evict(count) == count <= 0

\* MutexMap.Unlock, lines 42-54, key present: count--, evict at count <= 0
UnlockBookkeeping(g, key) ==
    /\ mmMutex = NoProc
    /\ mutexmap[key] # NoEntry
    /\ LET e == mutexmap[key]
       IN /\ entryCount' = [entryCount EXCEPT ![e] = entryCount[e] - 1]
          /\ mutexmap' = [mutexmap EXCEPT ![key] =
                             IF Evict(entryCount[e] - 1) THEN NoEntry ELSE e]
          /\ mmE' = [mmE EXCEPT ![g] = e]
    /\ UNCHANGED <<entryMutex, mmMutex, mmKey>>

\* An Unlock whose panic leaves mm.mutex locked (no deferred Unlock)
RegistryHolderAfterPanicKept(g) == g
\* Unlock: the panic of line 48 unwinds the closure, whose deferred mm.mutex.Unlock()
\* (line 44) runs
RegistryHolderAfterPanic(g) == NoProc

\* MutexMap.Unlock, lines 42-49, key absent: panic; lines 50-55 are not reached
UnlockPanic(g, key) ==
    /\ mmMutex = NoProc
    /\ mutexmap[key] = NoEntry
    /\ mmMutex' = RegistryHolderAfterPanic(g)
    /\ UNCHANGED <<mutexmap, entryCount, entryMutex, mmE, mmKey>>

\* MutexMap.Unlock, line 55: e.mutex.Unlock()
UnlockRelease(g) ==
    /\ mmE[g] # NoEntry
    /\ entryMutex' = [entryMutex EXCEPT ![mmE[g]] = NoProc]
    /\ mmE' = [mmE EXCEPT ![g] = NoEntry]
    /\ mmKey' = [mmKey EXCEPT ![g] = NoKey]
    /\ UNCHANGED <<mutexmap, entryCount, mmMutex>>

\* NewMutexMap: an empty map
MMInit ==
    /\ mutexmap = [k \in Services |-> NoEntry]
    /\ entryCount = [e \in EntryIds |-> 0]
    /\ entryMutex = [e \in EntryIds |-> NoProc]
    /\ mmMutex = NoProc
    /\ mmE = [g \in Goroutines |-> NoEntry]
    /\ mmKey = [g \in Goroutines |-> NoKey]


\* ------------------------------------------------------------ Server state
NoCount == -1
NoTime == -2
Past == -1
NoPort == -1
NoService == "none"
NoError == "nil"
\* ServiceConnCount is a map[string]uint: 0 - 1 wraps
UintMax == 2147483647

\* a sync.RWMutex nobody holds
Unlocked == [w |-> NoProc, r |-> {}]

NoMap == [ok |-> FALSE, m |-> <<>>]
\* what ContainerInspect returns: its error, or State.Status, State.Running and
\* State.Health.Status ("none": State.Health is nil, types.NoHealthcheck)
NoInspect == [err |-> FALSE, status |-> "none", running |-> FALSE, health |-> "none"]
InspectError == [err |-> TRUE, status |-> "none", running |-> FALSE, health |-> "none"]
Absent == [exists |-> FALSE, image |-> "none", status |-> "none", binding |-> NoPort]

\* what a container of an earlier run of the proxy can look like at startup
InitContainers ==
    { Absent,
      [exists |-> TRUE, image |-> "cfg", status |-> "running", binding |-> EarlierPort],
      [exists |-> TRUE, image |-> "other", status |-> "exited", binding |-> EarlierPort] }

\* what FindOpenPort returns: the port and whether the error is non-nil
NoResult == [port |-> NoPort, err |-> FALSE]

\* no call of FindOpenPort has been made
FindIdle ==
    /\ attemptPort = NoPort
    /\ attempts = 0
    /\ probed = << >>
    /\ found = NoResult

\* main, lines 715-724: empty maps, zero resources
ServerInit ==
    /\ ServiceConnCount = [s \in Services |-> NoCount]
    /\ ServiceKillTime = [s \in Services |-> NoTime]
    /\ ServiceProxyHostPortMap = [s \in Services |-> NoMap]
    /\ TrackedResources = [MilliCPU |-> 0, MemoryMi |-> 0, GpuMemoryMi |-> 0]
    /\ reserved = [s \in Services |-> 0]
    /\ net = [g \in Goroutines |-> 0]
    /\ errMsg = [g \in Goroutines |-> NoError]
    /\ app = [g \in Goroutines |-> NoService]
    /\ err = [g \in Goroutines |-> FALSE]
    /\ polls = [g \in Goroutines |-> 0]
    /\ cont = [g \in Goroutines |-> Absent]
    /\ backendHostPort = [g \in Goroutines |-> NoPort]
    /\ toKill = {}
    /\ inspected = [g \in Goroutines |-> NoInspect]
    /\ FindIdle
    /\ accounted = [s \in Services |-> FALSE]
    /\ fresh = [s \in Services |-> FALSE]
    /\ stopCalled = [s \in Services |-> FALSE]
    /\ accepted = 0
    /\ ServerLock = Unlocked
    /\ TrackedResourcesLock = Unlocked

Init ==
    /\ MMInit
    /\ ServerInit
    /\ docker \in [Services -> InitContainers]
    /\ pc = [g \in Goroutines |-> IF g = Reaper THEN "r_sleep" ELSE "idle"]

\* Resources, componentwise
Plus(a, b) == [MilliCPU |-> a.MilliCPU + b.MilliCPU,
               MemoryMi |-> a.MemoryMi + b.MemoryMi,
               GpuMemoryMi |-> a.GpuMemoryMi + b.GpuMemoryMi]
Minus(a, b) == [MilliCPU |-> a.MilliCPU - b.MilliCPU,
                MemoryMi |-> a.MemoryMi - b.MemoryMi,
                GpuMemoryMi |-> a.GpuMemoryMi - b.GpuMemoryMi]

\* reading a Go map[string]uint: the zero value for a missing key
Count(s) == IF ServiceConnCount[s] = NoCount THEN 0 ELSE ServiceConnCount[s]

Goto(g, label) == pc' = [pc EXCEPT ![g] = label]

\* ------------------------------------------------------------ HandleConnection
\* Listen, lines 163-169: a connection to a port of service s is accepted and handed
\* to a fresh goroutine
Accept(h, s) ==
    /\ pc[h] = "idle"
    /\ accepted < MaxAccepts
    /\ accepted' = accepted + 1
    /\ app' = [app EXCEPT ![h] = s]
    /\ Goto(h, "h_check")
    /\ UNCHANGED <<ServiceConnCount, ServiceKillTime, ServiceProxyHostPortMap,
                   TrackedResources, reserved, net, errMsg, docker, err, polls, cont,
                   backendHostPort, toKill, inspected, findVars, accounted, fresh,
                   stopCalled, mmVars, ServerLock, TrackedResourcesLock>>

\* lines 176-190: containerActive is read under the read lock; LaunchContainer is
\* called when it is false
CheckActive(h) ==
    /\ pc[h] = "h_check"
    /\ Goto(h, IF Count(app[h]) > 0 THEN "h_inc" ELSE "L_lock")
    /\ UNCHANGED <<ServiceConnCount, ServiceKillTime, ServiceProxyHostPortMap,
                   TrackedResources, reserved, net, errMsg, docker, app, err, polls, cont,
                   backendHostPort, toKill, inspected, findVars, accounted, fresh,
                   stopCalled, accepted, ServerLock, TrackedResourcesLock, mmVars>>

\* lines 192-197: the refcount is incremented under the write lock (and nothing else)
Increment(h) ==
    /\ pc[h] = "h_inc"
    /\ ServiceConnCount' = [ServiceConnCount EXCEPT ![app[h]] = Count(app[h]) + 1]
    /\ Goto(h, "h_lookup")
    /\ UNCHANGED <<ServiceKillTime, ServiceProxyHostPortMap, TrackedResources, reserved,
                   net, errMsg, docker, app, err, polls, cont, backendHostPort, toKill,
                   inspected, findVars, accounted, fresh, stopCalled, accepted, ServerLock,
                   TrackedResourcesLock, mmVars>>

\* lines 215-225: backendHostPort is looked up under the read lock, -1 when missing
LookupPort(h) ==
    /\ pc[h] = "h_lookup"
    /\ LET pm == ServiceProxyHostPortMap[app[h]]
       IN backendHostPort' = [backendHostPort EXCEPT ![h] =
            IF pm.ok /\ ContainerPort(app[h]) \in DOMAIN pm.m
            THEN pm.m[ContainerPort(app[h])] ELSE NoPort]
    /\ Goto(h, "h_dial")
    /\ UNCHANGED <<ServiceConnCount, ServiceKillTime, ServiceProxyHostPortMap,
                   TrackedResources, reserved, net, errMsg, docker, app, err, polls, cont,
                   toKill, inspected, findVars, accounted, fresh, stopCalled, mmVars,
                   accepted, ServerLock, TrackedResourcesLock>>

\* the reaper has s in its snapshot and has not yet deleted its deadline
ReaperPending(s) ==
    \/ s \in toKill
    \/ app[Reaper] = s

\* A release that leaves the counter as it is
DecNone(c) == c
\* uint decrement
Dec(c) == IF c = 0 THEN UintMax ELSE c - 1

\* A release that arms the deadline whatever the counter
ArmAlways(c) == TRUE
\* line 204: count == 0
ArmAt(c) == c = 0

\* the deferred function of lines 199-208: decrement, and at 0 arm the deadline
\* time.Now() + CoolDown
Release(h) ==
    LET s == app[h]
        c == Dec(Count(s))
    IN /\ ServiceConnCount' = [ServiceConnCount EXCEPT ![s] = c]
       /\ ServiceKillTime' = IF ArmAt(c) THEN [ServiceKillTime EXCEPT ![s] = CoolDown(s)]
                                         ELSE ServiceKillTime
       /\ fresh' = IF ArmAt(c) THEN [fresh EXCEPT ![s] = ReaperPending(s)] ELSE fresh
       /\ stopCalled' = IF ArmAt(c) THEN [stopCalled EXCEPT ![s] = FALSE] ELSE stopCalled
       /\ app' = [app EXCEPT ![h] = NoService]
       /\ backendHostPort' = [backendHostPort EXCEPT ![h] = NoPort]
       /\ Goto(h, "idle")

\* net.DialTimeout succeeds when the container listens on the port dialled
Listening(s, port) ==
    /\ port # NoPort
    /\ docker[s].exists /\ docker[s].status = "running" /\ docker[s].binding = port

\* line 226: the dial succeeds
DialOk(h) ==
    /\ pc[h] = "h_dial"
    /\ Listening(app[h], backendHostPort[h])
    /\ Goto(h, "h_copy")
    /\ UNCHANGED <<ServiceConnCount, ServiceKillTime, ServiceProxyHostPortMap,
                   TrackedResources, reserved, net, errMsg, docker, app, err, polls, cont,
                   backendHostPort, toKill, inspected, findVars, accounted, fresh,
                   stopCalled, accepted, ServerLock, TrackedResourcesLock, mmVars>>

\* lines 226-230: the dial fails, the handler returns and its deferred release runs
DialFail(h) ==
    /\ pc[h] = "h_dial"
    /\ Release(h)
    /\ UNCHANGED <<ServiceProxyHostPortMap, TrackedResources, reserved, net, errMsg, docker,
                   err, polls, cont, toKill, inspected, findVars, accounted, mmVars,
                   accepted, ServerLock, TrackedResourcesLock>>

\* lines 233-246: both copies end, the handler returns and its deferred release runs
CopyDone(h) ==
    /\ pc[h] = "h_copy"
    /\ Release(h)
    /\ UNCHANGED <<ServiceProxyHostPortMap, TrackedResources, reserved, net, errMsg, docker,
                   err, polls, cont, toKill, inspected, findVars, accounted, mmVars,
                   accepted, ServerLock, TrackedResourcesLock>>

\* ------------------------------------------------------------ LaunchContainer
\* line 249: ContainerAPILock.Lock(app.Name), the bookkeeping
LaunchLock(h) ==
    /\ pc[h] = "L_lock"
    /\ LockBookkeeping(h, app[h])
    /\ err' = [err EXCEPT ![h] = FALSE]
    /\ Goto(h, "L_wait")
    /\ UNCHANGED <<ServiceConnCount, ServiceKillTime, ServiceProxyHostPortMap,
                   TrackedResources, reserved, net, errMsg, docker, app, polls, cont,
                   backendHostPort, toKill, inspected, findVars, accounted, fresh,
                   stopCalled, accepted, ServerLock, TrackedResourcesLock>>

\* line 249: ContainerAPILock.Lock(app.Name), the sub-lock
LaunchAcquire(h) ==
    /\ pc[h] = "L_wait"
    /\ LockAcquire(h)
    /\ Goto(h, "L_list")
    /\ UNCHANGED srvVars

\* LaunchContainer returns err # nil from a place where only the Unlock is deferred,
\* or where the deferred functions do nothing
LaunchFail(h) ==
    /\ err' = [err EXCEPT ![h] = TRUE]
    /\ Goto(h, "L_unlock")

\* A check of the image that takes every container for valid
ImageMatchesAny(c) == TRUE
\* line 283: cont.Image != app.Image, negated
ImageMatches(c) == c.image = "cfg"

\* A check of the state that never takes the container for running
AlreadyRunningNever(c) == FALSE
\* line 499: cont.State == "running"
AlreadyRunning(c) == c.status = "running"

\* lines 264-294 and 350, 496-505: ContainerList, and the branch on what it found
LaunchList(h) ==
    /\ pc[h] = "L_list"
    /\ LET c == docker[app[h]]
       IN \/ LaunchFail(h) /\ UNCHANGED cont
          \/ /\ cont' = [cont EXCEPT ![h] = c]
             /\ Goto(h, IF ~c.exists THEN "L_ports"
                        ELSE IF ~ImageMatches(c) THEN "L_remove"
                        ELSE IF AlreadyRunning(c) THEN "L_d_ports"
                        ELSE "L_check")
             /\ UNCHANGED err
    /\ UNCHANGED <<ServiceConnCount, ServiceKillTime, ServiceProxyHostPortMap,
                   TrackedResources, reserved, net, errMsg, docker, app, polls,
                   backendHostPort, toKill, inspected, findVars, accounted, fresh,
                   stopCalled, accepted, ServerLock, TrackedResourcesLock, mmVars>>

\* lines 283-294: the image does not match, ContainerRemove (force) and cont = nil
\* (exists FALSE; the other fields keep what was removed, as history)
LaunchRemove(h) ==
    /\ pc[h] = "L_remove"
    /\ \/ LaunchFail(h) /\ UNCHANGED <<docker, cont>>
       \/ /\ docker' = [docker EXCEPT ![app[h]] = Absent]
          /\ cont' = [cont EXCEPT ![h].exists = FALSE]
          /\ Goto(h, "L_ports")
          /\ UNCHANGED err
    /\ UNCHANGED <<ServiceConnCount, ServiceKillTime, ServiceProxyHostPortMap,
                   TrackedResources, reserved, net, errMsg, app, polls, backendHostPort,
                   toKill, inspected, findVars, accounted, fresh, stopCalled, mmVars,
                   accepted, ServerLock, TrackedResourcesLock>>

\* lines 353-394: the pull policy (ImagePull / ImageList), whose errors are only
\* logged; then lines 402-438: under the write lock the port map entry is made and set
\* to what FindOpenPort returns, -1 with an error included
LaunchPorts(h) ==
    /\ pc[h] = "L_ports"
    /\ \E p \in PortChoices \cup {NoPort} :
        /\ ServiceProxyHostPortMap' = [ServiceProxyHostPortMap EXCEPT ![app[h]] =
              [ok |-> TRUE,
               m |-> [q \in (DOMAIN @.m) \cup {ContainerPort(app[h])} |->
                        IF q = ContainerPort(app[h]) THEN p ELSE @.m[q]]]]
        /\ IF p = NoPort
           THEN LaunchFail(h)
           ELSE Goto(h, "L_create") /\ UNCHANGED err
    /\ UNCHANGED <<ServiceConnCount, ServiceKillTime, TrackedResources, reserved, net,
                   errMsg, docker, app, polls, cont, backendHostPort, toKill, inspected,
                   findVars, accounted, fresh, stopCalled, accepted, ServerLock,
                   TrackedResourcesLock, mmVars>>

\* lines 482-495: ContainerCreate with the image of the config and the port bindings
\* just allocated
LaunchCreate(h) ==
    /\ pc[h] = "L_create"
    /\ \/ LaunchFail(h) /\ UNCHANGED docker
       \/ /\ docker' = [docker EXCEPT ![app[h]] =
                [exists |-> TRUE, image |-> "cfg", status |-> "created",
                 binding |-> ServiceProxyHostPortMap[app[h]].m[ContainerPort(app[h])]]]
          /\ Goto(h, "L_check")
          /\ UNCHANGED err
    /\ UNCHANGED <<ServiceConnCount, ServiceKillTime, ServiceProxyHostPortMap,
                   TrackedResources, reserved, net, errMsg, app, polls, cont,
                   backendHostPort, toKill, inspected, findVars, accounted, fresh,
                   stopCalled, mmVars, accepted, ServerLock, TrackedResourcesLock>>

\* lines 510-518: the three comparisons of the admission check
Fits(tracked, request) ==
    /\ tracked.MilliCPU + request.MilliCPU <= Limits.MilliCPU
    /\ tracked.MemoryMi + request.MemoryMi <= Limits.MemoryMi
    /\ tracked.GpuMemoryMi + request.GpuMemoryMi <= Limits.GpuMemoryMi

\* An admission check that compares the dimensions in the reverse order
AdmissionErrorGpuFirst(tracked, request) ==
    IF tracked.GpuMemoryMi + request.GpuMemoryMi > Limits.GpuMemoryMi
    THEN "not enough video memory resources to launch container"
    ELSE IF tracked.MemoryMi + request.MemoryMi > Limits.MemoryMi
    THEN "not enough memory resources to launch container"
    ELSE IF tracked.MilliCPU + request.MilliCPU > Limits.MilliCPU
    THEN "not enough cpu resources to launch container"
    ELSE NoError

\* lines 510-519: the error the closure of the admission check returns, its three ifs
\* in the order of the source
AdmissionError(tracked, request) ==
    IF tracked.MilliCPU + request.MilliCPU > Limits.MilliCPU
    THEN "not enough cpu resources to launch container"
    ELSE IF tracked.MemoryMi + request.MemoryMi > Limits.MemoryMi
    THEN "not enough memory resources to launch container"
    ELSE IF tracked.GpuMemoryMi + request.GpuMemoryMi > Limits.GpuMemoryMi
    THEN "not enough video memory resources to launch container"
    ELSE NoError

\* lines 507-523: the admission check, under the read lock of TrackedResourcesLock
LaunchCheck(h) ==
    /\ pc[h] = "L_check"
    /\ errMsg' = [errMsg EXCEPT ![h] = AdmissionError(TrackedResources,
                                                      ResourceRequest(app[h]))]
    /\ IF Fits(TrackedResources, ResourceRequest(app[h]))
       THEN Goto(h, "L_reserve") /\ UNCHANGED err
       ELSE LaunchFail(h)
    /\ UNCHANGED <<ServiceConnCount, ServiceKillTime, ServiceProxyHostPortMap,
                   TrackedResources, reserved, net, docker, app, polls, cont,
                   backendHostPort, toKill, inspected, findVars, accounted, fresh,
                   stopCalled, accepted, ServerLock, TrackedResourcesLock, mmVars>>

\* lines 525-532: the reservation, under the write lock of TrackedResourcesLock
LaunchReserve(h) ==
    /\ pc[h] = "L_reserve"
    /\ TrackedResources' = Plus(TrackedResources, ResourceRequest(app[h]))
    /\ reserved' = [reserved EXCEPT ![app[h]] = @ + 1]
    /\ net' = [net EXCEPT ![h] = @ + 1]
    /\ Goto(h, "L_start")
    /\ UNCHANGED <<ServiceConnCount, ServiceKillTime, ServiceProxyHostPortMap, docker, app,
                   err, errMsg, polls, cont, backendHostPort, toKill, inspected, findVars,
                   accounted, fresh, stopCalled, accepted, ServerLock, TrackedResourcesLock,
                   mmVars>>

\* LaunchContainer returns err # nil after the reservation: the deferred release runs
LaunchFailReserved(h) ==
    /\ err' = [err EXCEPT ![h] = TRUE]
    /\ polls' = [polls EXCEPT ![h] = 0]
    /\ Goto(h, "L_d_release")

\* lines 544-549: ContainerStart
LaunchStart(h) ==
    /\ pc[h] = "L_start"
    /\ \/ LaunchFailReserved(h) /\ UNCHANGED docker
       \/ /\ docker' = [docker EXCEPT ![app[h]].status = "running"]
          /\ Goto(h, "L_ready")
          /\ UNCHANGED <<err, polls>>
    /\ UNCHANGED <<ServiceConnCount, ServiceKillTime, ServiceProxyHostPortMap,
                   TrackedResources, reserved, net, errMsg, app, cont, backendHostPort,
                   toKill, inspected, findVars, accounted, fresh, stopCalled, mmVars,
                   accepted, ServerLock, TrackedResourcesLock>>

\* what ContainerInspect can return for the container of s as it is now
Inspected(s) ==
    {InspectError} \cup
    {[err |-> FALSE, status |-> docker[s].status, running |-> docker[s].status = "running",
      health |-> hl] :
        hl \in IF HasHealthcheck(s) THEN {"starting", "healthy", "unhealthy"} ELSE {"none"}}

\* A readiness wait that takes every container whose health check has ended for ready
ReadyVerdictUnhealthyOk(o) ==
    IF o.err THEN "error"
    ELSE IF o.status # "running" THEN "not running"
    ELSE IF o.health = "none" THEN (IF o.running THEN "ready" ELSE "sleep")
    ELSE IF o.health \in {"healthy", "unhealthy"} THEN "ready"
    ELSE "sleep"

\* lines 556-577: what one iteration of the readiness wait does with the result of
\* its ContainerInspect
ReadyVerdict(o) ==
    IF o.err THEN "error"
    ELSE IF o.status # "running" THEN "not running"
    ELSE IF o.health = "none" THEN (IF o.running THEN "ready" ELSE "sleep")
    ELSE IF o.health = "healthy" THEN "ready"
    ELSE "sleep"

\* lines 555-582: the iteration with loop counter polls[h] that inspected o: return
\* nil, sleep and go round again, or return an error (after the last iteration:
\* "container did not start in time")
ReadyStep(h, o) ==
    IF ReadyVerdict(o) = "ready"
    THEN /\ polls' = [polls EXCEPT ![h] = 0]
         /\ Goto(h, "L_d_ports")
         /\ UNCHANGED err
    ELSE IF ReadyVerdict(o) = "sleep" /\ polls[h] + 1 < ReadinessPolls
    THEN /\ polls' = [polls EXCEPT ![h] = @ + 1]
         /\ Goto(h, "L_ready")
         /\ UNCHANGED err
    ELSE LaunchFailReserved(h)

\* lines 551-583: one ContainerInspect of the readiness wait and what follows from it
LaunchReady(h) ==
    /\ pc[h] = "L_ready"
    /\ \E o \in Inspected(app[h]) : ReadyStep(h, o)
    /\ UNCHANGED <<ServiceConnCount, ServiceKillTime, ServiceProxyHostPortMap,
                   TrackedResources, reserved, net, errMsg, docker, app, cont,
                   backendHostPort, toKill, inspected, findVars, accounted, fresh,
                   stopCalled, mmVars, accepted, ServerLock, TrackedResourcesLock>>

\* lines 533-542: the deferred release of the reservation, err # nil
LaunchDeferRelease(h) ==
    /\ pc[h] = "L_d_release"
    /\ TrackedResources' = Minus(TrackedResources, ResourceRequest(app[h]))
    /\ reserved' = [reserved EXCEPT ![app[h]] = @ - 1]
    /\ net' = [net EXCEPT ![h] = @ - 1]
    /\ Goto(h, "L_unlock")
    /\ UNCHANGED <<ServiceConnCount, ServiceKillTime, ServiceProxyHostPortMap, docker, app,
                   err, errMsg, polls, cont, backendHostPort, toKill, inspected, findVars,
                   accounted, fresh, stopCalled, accepted, ServerLock, TrackedResourcesLock,
                   mmVars>>

\* lines 326-341: the container ports in inspect.HostConfig.PortBindings, of which the
\* model keeps the port of the service
BoundPorts(s) == IF docker[s].binding = NoPort THEN {} ELSE {ContainerPort(s)}

\* lines 299-348: the deferred port-map function, err = nil. With a map entry for the
\* service it does nothing; without one, ContainerInspect, then the port map is filled
\* from the bindings of the container under the write lock; an error of Inspect
\* becomes the result of LaunchContainer
LaunchDeferPorts(h) ==
    /\ pc[h] = "L_d_ports"
    /\ \/ /\ ServiceProxyHostPortMap[app[h]].ok
          /\ Goto(h, "L_unlock")
          /\ UNCHANGED <<err, ServiceProxyHostPortMap>>
       \/ /\ ~ServiceProxyHostPortMap[app[h]].ok
          /\ LaunchFail(h)
          /\ UNCHANGED ServiceProxyHostPortMap
       \/ /\ ~ServiceProxyHostPortMap[app[h]].ok
          /\ ServiceProxyHostPortMap' = [ServiceProxyHostPortMap EXCEPT ![app[h]] =
                [ok |-> TRUE,
                 m |-> [q \in BoundPorts(app[h]) |-> docker[app[h]].binding]]]
          /\ Goto(h, "L_unlock")
          /\ UNCHANGED err
    /\ UNCHANGED <<ServiceConnCount, ServiceKillTime, TrackedResources, reserved, net,
                   errMsg, docker, app, polls, cont, backendHostPort, toKill, inspected,
                   findVars, accounted, fresh, stopCalled, accepted, ServerLock,
                   TrackedResourcesLock, mmVars>>

\* line 250: the deferred ContainerAPILock.Unlock(app.Name), the bookkeeping
LaunchUnlock(h) ==
    /\ pc[h] = "L_unlock"
    /\ UnlockBookkeeping(h, app[h])
    /\ Goto(h, "L_unrel")
    /\ UNCHANGED srvVars

\* line 250: the sub-lock is unlocked and LaunchContainer returns; lines 185-190:
\* HandleConnection returns on an error
LaunchReturn(h) ==
    /\ pc[h] = "L_unrel"
    /\ UnlockRelease(h)
    /\ Goto(h, IF err[h] THEN "idle" ELSE "h_inc")
    /\ app' = [app EXCEPT ![h] = IF err[h] THEN NoService ELSE @]
    /\ err' = [err EXCEPT ![h] = FALSE]
    /\ cont' = [cont EXCEPT ![h] = Absent]
    /\ net' = [net EXCEPT ![h] = 0]
    /\ errMsg' = [errMsg EXCEPT ![h] = NoError]
    /\ accounted' = [accounted EXCEPT ![app[h]] = IF err[h] THEN @ ELSE TRUE]
    /\ UNCHANGED <<ServiceConnCount, ServiceKillTime, ServiceProxyHostPortMap,
                   TrackedResources, reserved, docker, polls, backendHostPort, toKill,
                   inspected, findVars, fresh, stopCalled, accepted, ServerLock,
                   TrackedResourcesLock>>

\* ------------------------------------------------------------ CleanUpContainers
\* lines 107-122: under the read lock, the services whose deadline lies before now
\* (time.Since(ts).Seconds() > 0) and whose refcount entry is 0
Eligible ==
    { s \in Services : /\ ServiceKillTime[s] = Past
                       /\ ServiceConnCount[s] # NoCount
                       /\ ServiceConnCount[s] = 0 }

\* lines 123-125: the loop over toKill goes on with the next container (in the order
\* the map iteration gave), or ends and the reaper sleeps (line 135)
ForNextToKill(rest) ==
    IF rest = {}
    THEN /\ toKill' = {}
         /\ app' = [app EXCEPT ![Reaper] = NoService]
         /\ Goto(Reaper, "r_sleep")
    ELSE \E s \in rest :
         /\ toKill' = rest \ {s}
         /\ app' = [app EXCEPT ![Reaper] = s]
         /\ Goto(Reaper, "S_call")

\* lines 106-125 (and the sleep of line 135 before them): the reaper's snapshot
Snapshot ==
    /\ pc[Reaper] = "r_sleep"
    /\ ForNextToKill(Eligible)
    /\ fresh' = [s \in Services |-> FALSE]
    /\ stopCalled' = [s \in Services |-> FALSE]
    /\ UNCHANGED <<ServiceConnCount, ServiceKillTime, ServiceProxyHostPortMap,
                   TrackedResources, reserved, net, errMsg, docker, err, polls, cont,
                   backendHostPort, inspected, findVars, accounted, mmVars, accepted,
                   ServerLock, TrackedResourcesLock>>

\* A reaper that keeps the deadline of a service whose StopContainer failed
DeletesOnSuccess(e) == ~e
\* lines 126-133: the delete does not depend on what StopContainer returned
Deletes(e) == TRUE

\* lines 129-133: after StopContainer, whatever it returned, the deadline is deleted
DeleteKillTime ==
    /\ pc[Reaper] = "r_delete"
    /\ ServiceKillTime' = IF Deletes(err[Reaper])
                          THEN [ServiceKillTime EXCEPT ![app[Reaper]] = NoTime]
                          ELSE ServiceKillTime
    /\ fresh' = [fresh EXCEPT ![app[Reaper]] = FALSE]
    /\ stopCalled' = [stopCalled EXCEPT ![app[Reaper]] = FALSE]
    /\ err' = [err EXCEPT ![Reaper] = FALSE]
    /\ net' = [net EXCEPT ![Reaper] = 0]
    /\ errMsg' = [errMsg EXCEPT ![Reaper] = NoError]
    /\ ForNextToKill(toKill)
    /\ UNCHANGED <<ServiceConnCount, ServiceProxyHostPortMap, TrackedResources, reserved,
                   docker, polls, cont, backendHostPort, inspected, findVars, accounted,
                   mmVars, accepted, ServerLock, TrackedResourcesLock>>

\* ------------------------------------------------------------ StopContainer
\* line 590: ContainerAPILock.Lock(name), the bookkeeping
StopLock ==
    /\ pc[Reaper] = "S_call"
    /\ LockBookkeeping(Reaper, app[Reaper])
    /\ Goto(Reaper, "S_wait")
    /\ stopCalled' = [stopCalled EXCEPT ![app[Reaper]] = TRUE]
    /\ UNCHANGED <<ServiceConnCount, ServiceKillTime, ServiceProxyHostPortMap,
                   TrackedResources, reserved, net, errMsg, docker, app, err, polls, cont,
                   backendHostPort, toKill, inspected, findVars, accounted, fresh, accepted,
                   ServerLock, TrackedResourcesLock>>

\* line 590: ContainerAPILock.Lock(name), the sub-lock
StopAcquire ==
    /\ pc[Reaper] = "S_wait"
    /\ LockAcquire(Reaper)
    /\ Goto(Reaper, "S_check")
    /\ UNCHANGED srvVars

\* A StopContainer that subtracts the request on its failing paths too
StopFailReleasing ==
    /\ err' = [err EXCEPT ![Reaper] = TRUE]
    /\ Goto(Reaper, "S_release")

\* StopContainer returns err # nil
StopFail ==
    /\ err' = [err EXCEPT ![Reaper] = TRUE]
    /\ Goto(Reaper, "S_unlock")

\* A StopContainer that never refuses
RefusesNever(count) == FALSE
\* line 597: count > 0
Refuses(count) == count > 0

\* lines 593-606: under the write lock, refuse when connections are counted
StopCheck ==
    /\ pc[Reaper] = "S_check"
    /\ IF Refuses(Count(app[Reaper]))
       THEN /\ StopFail
            /\ errMsg' = [errMsg EXCEPT ![Reaper] = "container has active connections"]
       ELSE Goto(Reaper, "S_list") /\ UNCHANGED <<err, errMsg>>
    /\ UNCHANGED <<ServiceConnCount, ServiceKillTime, ServiceProxyHostPortMap,
                   TrackedResources, reserved, net, docker, app, polls, cont,
                   backendHostPort, toKill, inspected, findVars, accounted, fresh,
                   stopCalled, accepted, ServerLock, TrackedResourcesLock, mmVars>>

\* lines 608-641: ContainerList; an error, or no container of that name, is an error
StopList ==
    /\ pc[Reaper] = "S_list"
    /\ \/ StopFail
       \/ /\ docker[app[Reaper]].exists
          /\ Goto(Reaper, "S_stop")
          /\ UNCHANGED err
    /\ UNCHANGED <<ServiceConnCount, ServiceKillTime, ServiceProxyHostPortMap,
                   TrackedResources, reserved, net, errMsg, docker, app, polls, cont,
                   backendHostPort, toKill, inspected, findVars, accounted, fresh,
                   stopCalled, accepted, ServerLock, TrackedResourcesLock, mmVars>>

\* lines 643-647: ContainerStop
StopStop ==
    /\ pc[Reaper] = "S_stop"
    /\ \/ StopFail /\ UNCHANGED <<docker, accounted>>
       \/ /\ docker' = [docker EXCEPT ![app[Reaper]].status = "stopped"]
          /\ accounted' = [accounted EXCEPT ![app[Reaper]] = FALSE]
          /\ Goto(Reaper, "S_waitnr")
          /\ UNCHANGED err
    /\ UNCHANGED <<ServiceConnCount, ServiceKillTime, ServiceProxyHostPortMap,
                   TrackedResources, reserved, net, errMsg, app, polls, cont,
                   backendHostPort, toKill, inspected, findVars, fresh, stopCalled, mmVars,
                   accepted, ServerLock, TrackedResourcesLock>>

\* lines 649-659: ContainerWait (not running), 10 s
StopWait ==
    /\ pc[Reaper] = "S_waitnr"
    /\ \/ StopFail
       \/ Goto(Reaper, "S_release") /\ UNCHANGED err
    /\ UNCHANGED <<ServiceConnCount, ServiceKillTime, ServiceProxyHostPortMap,
                   TrackedResources, reserved, net, errMsg, docker, app, polls, cont,
                   backendHostPort, toKill, inspected, findVars, accounted, fresh,
                   stopCalled, accepted, ServerLock, TrackedResourcesLock, mmVars>>

\* lines 663-680: the request of the service is subtracted from TrackedResources
StopRelease ==
    /\ pc[Reaper] = "S_release"
    /\ TrackedResources' = Minus(TrackedResources, ResourceRequest(app[Reaper]))
    /\ reserved' = [reserved EXCEPT ![app[Reaper]] = @ - 1]
    /\ net' = [net EXCEPT ![Reaper] = @ - 1]
    /\ Goto(Reaper, "S_unlock")
    /\ UNCHANGED <<ServiceConnCount, ServiceKillTime, ServiceProxyHostPortMap, docker, app,
                   err, errMsg, polls, cont, backendHostPort, toKill, inspected, findVars,
                   accounted, fresh, stopCalled, accepted, ServerLock, TrackedResourcesLock,
                   mmVars>>

\* line 591: the deferred ContainerAPILock.Unlock(name), the bookkeeping
StopUnlock ==
    /\ pc[Reaper] = "S_unlock"
    /\ UnlockBookkeeping(Reaper, app[Reaper])
    /\ Goto(Reaper, "S_unrel")
    /\ UNCHANGED srvVars

\* line 591: the sub-lock is unlocked and StopContainer returns
StopReturn ==
    /\ pc[Reaper] = "S_unrel"
    /\ UnlockRelease(Reaper)
    /\ Goto(Reaper, "r_delete")
    /\ UNCHANGED srvVars

\* ------------------------------------------------------------ environment
\* time passes: every armed deadline comes one tick closer, and then lies in the past
Tick ==
    /\ \E s \in Services : ServiceKillTime[s] >= 0
    /\ ServiceKillTime' = [s \in Services |->
            IF ServiceKillTime[s] >= 0 THEN ServiceKillTime[s] - 1 ELSE ServiceKillTime[s]]
    /\ UNCHANGED <<pc, ServiceConnCount, ServiceProxyHostPortMap, TrackedResources,
                   reserved, net, errMsg, docker, app, err, polls, cont, backendHostPort,
                   toKill, inspected, findVars, accounted, fresh, stopCalled, mmVars,
                   accepted, ServerLock, TrackedResourcesLock>>

\* the process of a running container exits by itself
ContainerExit(s) ==
    /\ docker[s].exists /\ docker[s].status = "running"
    /\ docker' = [docker EXCEPT ![s].status = "exited"]
    /\ UNCHANGED <<pc, ServiceConnCount, ServiceKillTime, ServiceProxyHostPortMap,
                   TrackedResources, reserved, net, errMsg, app, err, polls, cont,
                   backendHostPort, toKill, inspected, findVars, accounted, fresh,
                   stopCalled, accepted, ServerLock, TrackedResourcesLock, mmVars>>

\* ------------------------------------------------------------ the proxy
HandleConnection(h) ==
    \/ \E s \in Services : Accept(h, s)
    \/ CheckActive(h)
    \/ Increment(h)
    \/ LookupPort(h)
    \/ DialOk(h)
    \/ DialFail(h)
    \/ CopyDone(h)

LaunchContainer(h) ==
    \/ LaunchLock(h)
    \/ LaunchAcquire(h)
    \/ LaunchList(h)
    \/ LaunchRemove(h)
    \/ LaunchPorts(h)
    \/ LaunchCreate(h)
    \/ LaunchCheck(h)
    \/ LaunchReserve(h)
    \/ LaunchStart(h)
    \/ LaunchReady(h)
    \/ LaunchDeferRelease(h)
    \/ LaunchDeferPorts(h)
    \/ LaunchUnlock(h)
    \/ LaunchReturn(h)

StopContainer ==
    \/ StopLock
    \/ StopAcquire
    \/ StopCheck
    \/ StopList
    \/ StopStop
    \/ StopWait
    \/ StopRelease
    \/ StopUnlock
    \/ StopReturn

CleanUpContainers ==
    \/ Snapshot
    \/ StopContainer
    \/ DeleteKillTime

Next ==
    \/ \E h \in Handlers : HandleConnection(h) \/ LaunchContainer(h)
    \/ CleanUpContainers
    \/ Tick
    \/ \E s \in Services : ContainerExit(s)

Spec == Init /\ [][Next]_vars

\* Time passes, the reaper's loop goes on (line 135 sleeps one second), a docker API
\* call returns, and sync.Mutex hands the lock to a goroutine that keeps waiting.
\* Nothing makes a client connect.
FairSpec ==
    /\ Spec
    /\ WF_vars(Tick)
    /\ WF_vars(CleanUpContainers)
    /\ SF_vars(StopAcquire)
    /\ \A h \in Handlers : WF_vars(LaunchContainer(h)) /\ SF_vars(LaunchAcquire(h))

\* ------------------------------------------------------------ properties of the proxy
\* g is in the body of LaunchContainer or StopContainer: its Lock has returned and its
\* deferred Unlock has not yet been called
LaunchBody == {"L_list", "L_remove", "L_ports", "L_create", "L_check", "L_reserve",
               "L_start", "L_ready", "L_d_release", "L_d_ports", "L_unlock"}
StopBody == {"S_check", "S_list", "S_stop", "S_waitnr", "S_release", "S_unlock"}
InBody(g, s) == app[g] = s /\ pc[g] \in LaunchBody \cup StopBody

\* g is anywhere inside LaunchContainer or StopContainer
InCall(g) == pc[g] \in LaunchBody \cup StopBody \cup
                       {"L_lock", "L_wait", "L_unrel", "S_call", "S_wait", "S_unrel"}

RECURSIVE SumRequests(_)
SumRequests(S) ==
    IF S = {} THEN [MilliCPU |-> 0, MemoryMi |-> 0, GpuMemoryMi |-> 0]
    ELSE LET s == CHOOSE x \in S : TRUE
         IN Plus(ResourceRequest(s), SumRequests(S \ {s}))

\* C1: R1, TrackedResources never exceeds Config.Resources.Limits in any dimension.
C1_TrackedWithinLimits ==
    /\ TrackedResources.MilliCPU <= Limits.MilliCPU
    /\ TrackedResources.MemoryMi <= Limits.MemoryMi
    /\ TrackedResources.GpuMemoryMi <= Limits.GpuMemoryMi

\* C2: R2, outside every LaunchContainer / StopContainer call TrackedResources is the
\* sum of the requests of the services whose container runs under the controller's
\* accounting.
C2_TrackedIsSumOfRunning ==
    (\A g \in Procs : ~InCall(g)) =>
        TrackedResources =
            SumRequests({s \in Services : accounted[s] /\ docker[s].status = "running"})

\* C3: ContainerStop is never issued for a service whose ServiceConnCount is > 0 at
\* that instant.
C3_NoStopWhileCounted ==
    [][(pc[Reaper] = "S_stop" /\ pc'[Reaper] # "S_stop") => Count(app[Reaper]) = 0]_vars

\* C4: whenever connections of a service are counted, its container has not been
\* stopped by the proxy, unless a LaunchContainer of the service is starting it again.
C4_CountedImpliesStarted ==
    \A s \in Services :
        Count(s) > 0 =>
            \/ docker[s].status # "stopped"
            \/ \E h \in Handlers : app[h] = s /\ InCall(h)

\* C5: a service with ServiceConnCount > 0 has no entry in ServiceKillTime.
C5_NoDeadlineWhileCounted ==
    \A s \in Services : Count(s) > 0 => ServiceKillTime[s] = NoTime

\* a connection to s has been accepted and its handler has not returned
HandlerActive(s) == \E h \in Handlers : app[h] = s

\* the last connection of s has closed and its deadline is armed
IdleArmed(s) ==
    ServiceConnCount[s] = 0 /\ ServiceKillTime[s] # NoTime /\ ~HandlerActive(s)

\* C6: once the last connection of a service has closed, StopContainer is eventually
\* called for the service (a call made after the close), unless a further connection
\* to it arrives.
C6_IdleServiceIsStopped ==
    \A s \in Services :
        IdleArmed(s) ~> (stopCalled[s] \/ HandlerActive(s))

\* C7: the reaper's delete of ServiceKillTime after StopContainer never removes a
\* deadline that a connection armed after the reaper took its snapshot.
C7_DeleteOnlySnapshotDeadline ==
    [][(pc[Reaper] = "r_delete" /\ pc'[Reaper] # "r_delete") => ~fresh[app[Reaper]]]_vars

\* C8: L1, for every service at most one goroutine is in the body of LaunchContainer
\* or StopContainer (the driver calls) of that service.
C8_OneDriverCallPerService ==
    \A s \in Services : \A g1, g2 \in Procs :
        (InBody(g1, s) /\ InBody(g2, s)) => g1 = g2

\* C8 witness: a handler is in the body of LaunchContainer of a service while the
\* reaper, inside StopContainer, waits for the keyed mutex of the same service.
C8_Witness ==
    \E h \in Handlers :
        /\ pc[h] \in LaunchBody
        /\ pc[Reaper] = "S_wait" /\ app[Reaper] = app[h]

\* ------------------------------------------------------------ MutexMap clients
\* Goroutines that bracket a critical section with Lock(key) / Unlock(key), the
\* way LaunchContainer (lines 249-250) and StopContainer (lines 590-591) do.
ClientInit ==
    /\ MMInit
    /\ ServerInit
    /\ docker = [s \in Services |-> Absent]
    /\ pc = [g \in Goroutines |-> "m_idle"]

ClientLock(g, key) ==
    /\ pc[g] = "m_idle"
    /\ LockBookkeeping(g, key)
    /\ pc' = [pc EXCEPT ![g] = "m_wait"]
    /\ UNCHANGED srvVars

ClientAcquire(g) ==
    /\ pc[g] = "m_wait"
    /\ LockAcquire(g)
    /\ pc' = [pc EXCEPT ![g] = "m_crit"]
    /\ UNCHANGED srvVars

ClientUnlock(g) ==
    /\ pc[g] = "m_crit"
    /\ UnlockBookkeeping(g, mmKey[g])
    /\ pc' = [pc EXCEPT ![g] = "m_rel"]
    /\ UNCHANGED srvVars

ClientRelease(g) ==
    /\ pc[g] = "m_rel"
    /\ UnlockRelease(g)
    /\ pc' = [pc EXCEPT ![g] = "m_idle"]
    /\ UNCHANGED srvVars

ClientNext ==
    \E g \in Clients :
        \/ \E key \in Services : ClientLock(g, key)
        \/ ClientAcquire(g)
        \/ ClientUnlock(g)
        \/ ClientRelease(g)

MMSpec == ClientInit /\ [][ClientNext]_vars

\* sync.Mutex hands the lock to a waiter that has waited long enough (starvation
\* mode), and a holder's critical section ends
MMFairSpec ==
    /\ MMSpec
    /\ \A g \in Clients :
        /\ SF_vars(ClientAcquire(g))
        /\ WF_vars(ClientUnlock(g))
        /\ WF_vars(ClientRelease(g))

\* ------------------------------------------------------------ MutexMap properties
\* g is between the return of its Lock(key) and the call of its Unlock(key)
ClientHolds(g, key) == pc[g] = "m_crit" /\ mmKey[g] = key

\* the entry whose sub-lock g has locked and not yet unlocked, NoEntry if none
LockedEntryOf(g) ==
    IF \E e \in EntryIds : entryMutex[e] = g
    THEN CHOOSE e \in EntryIds : entryMutex[e] = g
    ELSE NoEntry

\* C9 (amended): for every key, at most one goroutine is between the return of its
\* Lock(key) and the call of its Unlock(key), whether or not entries were evicted
\* and allocated afresh in between.
C9_MutualExclusion ==
    \A key \in Services : \A g1, g2 \in Clients :
        (ClientHolds(g1, key) /\ ClientHolds(g2, key)) => g1 = g2

\* C9 as stated: mutual exclusion, and no two goroutines have locked the sub-locks
\* of two different entries of the same key at once.
C9_NoTwoEntriesLocked ==
    /\ C9_MutualExclusion
    /\ \A g1, g2 \in Clients :
        (/\ g1 # g2
         /\ LockedEntryOf(g1) # NoEntry
         /\ LockedEntryOf(g2) # NoEntry
         /\ mmKey[g1] = mmKey[g2])
        => LockedEntryOf(g1) = LockedEntryOf(g2)

\* C9 witness: a goroutine holds a key through a fresh entry while the goroutine that
\* evicted the previous entry of that key has not yet unlocked its sub-lock.
C9_Witness ==
    \E g1, g2 \in Clients :
        /\ g1 # g2
        /\ pc[g1] = "m_rel"
        /\ ClientHolds(g2, mmKey[g1])
        /\ mutexmap[mmKey[g1]] # mmE[g1]

InUnlock(g) == mmE[g] # NoEntry /\ entryMutex[mmE[g]] = g

\* the goroutines whose Lock(key) has been called and whose Unlock(key) has not yet
\* done its bookkeeping
Users(key) == {g \in Goroutines : mmKey[g] = key /\ ~InUnlock(g)}

\* C11: MutexMap leaves no garbage: when every Lock(key) has been matched by an
\* Unlock(key), the registry map holds no entry for key.
C11_NoGarbage ==
    \A key \in Services : Users(key) = {} => mutexmap[key] = NoEntry

\* C11 witness: the last holder of a key is inside Unlock, which has evicted the
\* entry, while another key still has its entry.
C11_Witness ==
    \E g \in Clients :
        /\ InUnlock(g)
        /\ Users(mmKey[g]) = {}
        /\ mutexmap[mmKey[g]] = NoEntry
        /\ \E k \in Services : mutexmap[k] # NoEntry

\* ------------------------------------------------------------ properties of LaunchContainer
\* the steps of LaunchContainer that call ContainerRemove, ContainerCreate or
\* ContainerStart, or touch the reservation, and the steps leading to them
LaunchWork == {"L_remove", "L_ports", "L_create", "L_check", "L_reserve", "L_start",
               "L_ready", "L_d_release"}

\* C12: a LaunchContainer call that finds the container of the service running (with
\* the configured image) makes no step that removes, creates or starts a container,
\* and leaves TrackedResources as it was.
C12_RunningLaunchIsNoOp ==
    [][\A h \in Handlers :
        (/\ cont[h].exists /\ cont[h].image = "cfg" /\ cont[h].status = "running"
         /\ pc'[h] # pc[h])
        => /\ docker' = docker
           /\ TrackedResources' = TrackedResources
           /\ pc'[h] \notin LaunchWork]_vars

\* C12 witness: after a successful LaunchContainer of the service, another call has
\* found the container running and is about to return nil.
C12_Witness ==
    \E h \in Handlers :
        /\ pc[h] = "L_d_ports" /\ ~err[h]
        /\ cont[h].exists /\ cont[h].status = "running"
        /\ accounted[app[h]]
        /\ TrackedResources = ResourceRequest(app[h])

\* ------------------------------------------------------------ properties of HandleConnection
\* the handlers of s that have incremented ServiceConnCount[s] (lines 193-197) and
\* whose deferred decrement (lines 199-208) has not yet run
Counted(s) == {h \in Handlers : app[h] = s /\ pc[h] \in {"h_lookup", "h_dial", "h_copy"}}

\* C13: ServiceConnCount[s] is the number of handlers of s between their increment
\* and their decrement; in particular the unsigned counter never wraps below zero.
C13_CountIsBalanced ==
    \A s \in Services : Count(s) = Cardinality(Counted(s))

\* C13 witness: the connection of one service has been released (its counter is back
\* at 0) while a connection of another service is counted.
C13_Witness ==
    \E s1, s2 \in Services :
        /\ ServiceConnCount[s1] = 0 /\ Counted(s1) = {}
        /\ ServiceConnCount[s2] = 1 /\ Counted(s2) # {}

\* C14: ServiceKillTime[s] gets a deadline only from the release of a connection of s
\* that brings ServiceConnCount[s] from 1 to 0, and the deadline is CoolDown(s) from
\* now; otherwise the entry only comes closer as time passes or is deleted by the
\* reaper. A release that leaves the counter above 0 leaves the entry alone.
C14_ArmedOnlyOnLastRelease ==
    [][\A s \in Services :
        /\ ServiceKillTime'[s] # ServiceKillTime[s] =>
              \/ /\ pc[Reaper] = "r_delete" /\ app[Reaper] = s
                 /\ ServiceKillTime'[s] = NoTime
              \/ /\ pc' = pc
                 /\ ServiceKillTime[s] >= 0 /\ ServiceKillTime'[s] = ServiceKillTime[s] - 1
              \/ /\ \E h \in Counted(s) : pc'[h] = "idle"
                 /\ ServiceConnCount[s] = 1 /\ ServiceConnCount'[s] = 0
                 /\ ServiceKillTime'[s] = CoolDown(s)
        /\ (Counted(s) # Counted(s)' /\ ServiceConnCount'[s] > 0) =>
              ServiceKillTime'[s] = ServiceKillTime[s]]_vars

\* C14 witness: the last connection of a service with a cooldown has been released
\* and its deadline is CoolDown from now.
C14_Witness ==
    \E s \in Services :
        /\ CoolDown(s) > 0
        /\ ServiceConnCount[s] = 0 /\ Counted(s) = {}
        /\ ServiceKillTime[s] = CoolDown(s)

\* C15: when the connections to a service are all open at once (concurrent first
\* connections), TrackedResources holds one reservation of the service at most.
C15_OneReservationPerService ==
    \A s \in Services :
        Cardinality({h \in Handlers : app[h] = s}) >= 2 => reserved[s] <= 1

\* C16: when LaunchContainer found no container of the service and the admission
\* check fails, TrackedResources is unchanged and no container of the service exists.
C16_AdmissionFailureLeavesNothing ==
    [][\A h \in Handlers :
        (pc[h] = "L_check" /\ pc'[h] = "L_unlock" /\ ~cont[h].exists)
        => /\ TrackedResources' = TrackedResources
           /\ ~docker'[app[h]].exists]_vars

\* C17: LaunchContainer does not return nil for a running container that the proxy
\* created in this run while TrackedResources holds no reservation of the service
\* (as it would after a failed readiness wait released the reservation).
C17_NoSuccessWithoutReservation ==
    \A h \in Handlers :
        (/\ pc[h] = "L_unlock" /\ ~err[h]
         /\ docker[app[h]].status = "running"
         /\ docker[app[h]].binding \in PortChoices)
        => reserved[app[h]] >= 1

\* C18: no component of TrackedResources is ever negative.
C18_TrackedNonNegative ==
    /\ TrackedResources.MilliCPU >= 0
    /\ TrackedResources.MemoryMi >= 0
    /\ TrackedResources.GpuMemoryMi >= 0

\* ------------------------------------------------------------ the locks of the proxy
\* The goroutines of the proxy reduced to their lock calls: every Lock / RLock of
\* ServerLock, of TrackedResourcesLock and of ContainerAPILock in the order of the
\* source, every branch of the code taken nondeterministically, and each lock held
\* from its Lock call to its deferred Unlock. sync.RWMutex is modelled without its
\* preference for writers: any waiter that can take the lock may take it.
dataVars == <<ServiceConnCount, ServiceKillTime, ServiceProxyHostPortMap, TrackedResources,
              reserved, net, errMsg, docker, err, polls, cont, backendHostPort, toKill,
              inspected, findVars, accounted, fresh, stopCalled, accepted>>

\* the closures that lock ServerLock: lines 109, 130 (CleanUpContainers), 178, 194,
\* 200, 218 (HandleConnection), 306, 321, 414 (LaunchContainer), 594 (StopContainer)
ServerSections == {"r_sleep", "r_delete", "h_check", "h_inc", "h_release", "h_lookup",
                   "L_d_ports", "L_d_store", "L_ports", "S_check"}
\* the closures that lock TrackedResourcesLock: lines 508, 527, 536 (LaunchContainer)
\* and 675 (StopContainer)
TrackedSections == {"L_check", "L_reserve", "L_d_release", "S_release"}
\* the closures that take the read lock: lines 109, 178, 218, 306 and 508
ReadSections == {"r_sleep", "h_check", "h_lookup", "L_d_ports", "L_check"}

\* where a goroutine goes on after the closure at label, by the branches of the code
Succ(label) ==
    CASE label = "r_sleep"     -> {"r_sleep", "S_call"}
      [] label = "r_delete"    -> {"r_sleep", "S_call"}
      [] label = "h_check"     -> {"L_lock", "h_inc"}
      [] label = "h_inc"       -> {"h_lookup"}
      [] label = "h_lookup"    -> {"h_release"}
      [] label = "h_release"   -> {"idle"}
      [] label = "L_list"      -> {"L_ports", "L_check", "L_d_ports", "L_unlock"}
      [] label = "L_ports"     -> {"L_create", "L_unlock"}
      [] label = "L_create"    -> {"L_check", "L_unlock"}
      [] label = "L_check"     -> {"L_reserve", "L_unlock"}
      [] label = "L_reserve"   -> {"L_start"}
      [] label = "L_start"     -> {"L_d_ports", "L_d_release"}
      [] label = "L_d_release" -> {"L_unlock"}
      [] label = "L_d_ports"   -> {"L_inspect", "L_unlock"}
      [] label = "L_inspect"   -> {"L_d_store", "L_unlock"}
      [] label = "L_d_store"   -> {"L_unlock"}
      [] label = "S_check"     -> {"S_list", "S_unlock"}
      [] label = "S_list"      -> {"S_release", "S_unlock"}
      [] label = "S_release"   -> {"S_unlock"}
      [] OTHER                 -> {}

\* sync.RWMutex
CanLock(l, write) == l.w = NoProc /\ (write => l.r = {})
Locked(l, g, write) == IF write THEN [l EXCEPT !.w = g] ELSE [l EXCEPT !.r = @ \cup {g}]
Released(l, g) == [w |-> IF l.w = g THEN NoProc ELSE l.w, r |-> l.r \ {g}]
HoldsRW(l, g) == l.w = g \/ g \in l.r

\* A closure that returns without unlocking the read lock it took at line 178
DeferredUnlockMissing(label) == label # "h_check"
\* A reaper that calls StopContainer with the read lock of its snapshot still held
DeferredUnlockAfterStop(label) == label # "r_sleep"
\* every closure unlocks what it locked by a defer (lines 110, 131, 179, ..., 676)
DeferredUnlock(label) == TRUE

\* s.ServerLock.Lock() / RLock() at the head of a closure
ServerLockLock(g) ==
    /\ pc[g] \in ServerSections
    /\ ~HoldsRW(ServerLock, g)
    /\ CanLock(ServerLock, pc[g] \notin ReadSections)
    /\ ServerLock' = Locked(ServerLock, g, pc[g] \notin ReadSections)
    /\ UNCHANGED <<pc, app, TrackedResourcesLock, dataVars, mmVars>>

\* s.TrackedResourcesLock.Lock() / RLock() at the head of a closure
TrackedResourcesLockLock(g) ==
    /\ pc[g] \in TrackedSections
    /\ ~HoldsRW(TrackedResourcesLock, g)
    /\ CanLock(TrackedResourcesLock, pc[g] \notin ReadSections)
    /\ TrackedResourcesLock' = Locked(TrackedResourcesLock, g, pc[g] \notin ReadSections)
    /\ UNCHANGED <<pc, app, ServerLock, dataVars, mmVars>>

\* the closure ends, its deferred Unlock / RUnlock runs, and the goroutine goes on;
\* the reaper going on to StopContainer has the next container of toKill
SectionEnd(g) ==
    /\ \/ pc[g] \in ServerSections /\ HoldsRW(ServerLock, g)
       \/ pc[g] \in TrackedSections /\ HoldsRW(TrackedResourcesLock, g)
    /\ IF DeferredUnlock(pc[g])
       THEN /\ ServerLock' = Released(ServerLock, g)
            /\ TrackedResourcesLock' = Released(TrackedResourcesLock, g)
       ELSE UNCHANGED <<ServerLock, TrackedResourcesLock>>
    /\ \E next \in Succ(pc[g]) :
          /\ Goto(g, next)
          /\ IF next = "S_call" THEN \E s \in Services : app' = [app EXCEPT ![g] = s]
             ELSE IF next = "idle" THEN app' = [app EXCEPT ![g] = NoService]
             ELSE UNCHANGED app
    /\ UNCHANGED <<dataVars, mmVars>>

\* Listen: a connection of service s is handed to a goroutine
ConnAccept(h, s) ==
    /\ pc[h] = "idle"
    /\ app' = [app EXCEPT ![h] = s]
    /\ Goto(h, "h_check")
    /\ UNCHANGED <<ServerLock, TrackedResourcesLock, dataVars, mmVars>>

\* lines 249 and 590: ContainerAPILock.Lock(name), the bookkeeping under mm.mutex
KeyedLock(g) ==
    /\ pc[g] \in {"L_lock", "S_call"}
    /\ LockBookkeeping(g, app[g])
    /\ Goto(g, IF g = Reaper THEN "S_wait" ELSE "L_wait")
    /\ UNCHANGED <<app, ServerLock, TrackedResourcesLock, dataVars>>

\* lines 249 and 590: ContainerAPILock.Lock(name), the sub-lock
KeyedAcquire(g) ==
    /\ pc[g] \in {"L_wait", "S_wait"}
    /\ LockAcquire(g)
    /\ Goto(g, IF g = Reaper THEN "S_check" ELSE "L_list")
    /\ UNCHANGED <<app, ServerLock, TrackedResourcesLock, dataVars>>

\* where the goroutines call the docker daemon: ContainerList, ContainerRemove and
\* the pull policy (lines 264-294, 353-394), ContainerCreate (483), ContainerStart and
\* the readiness wait (545-580), the ContainerInspect of the deferred port-map
\* function (315), and in StopContainer ContainerList, ContainerStop, ContainerWait
\* (620-659)
DriverSites == {"L_list", "L_create", "L_start", "L_inspect", "S_list"}

\* the docker calls between two closures return, and the goroutine goes on
DriverCalls(h) ==
    /\ pc[h] \in DriverSites
    /\ \E next \in Succ(pc[h]) : Goto(h, next)
    /\ UNCHANGED <<app, ServerLock, TrackedResourcesLock, dataVars, mmVars>>

\* lines 250 and 591: the deferred ContainerAPILock.Unlock(name), the bookkeeping
KeyedUnlock(g) ==
    /\ pc[g] \in {"L_unlock", "S_unlock"}
    /\ UnlockBookkeeping(g, app[g])
    /\ Goto(g, IF g = Reaper THEN "S_unrel" ELSE "L_unrel")
    /\ UNCHANGED <<app, ServerLock, TrackedResourcesLock, dataVars>>

\* lines 250 and 591: the sub-lock is unlocked; LaunchContainer returns to
\* HandleConnection (lines 185-190), StopContainer to the reaper (line 129)
KeyedRelease(g) ==
    /\ pc[g] \in {"L_unrel", "S_unrel"}
    /\ UnlockRelease(g)
    /\ \E next \in (IF g = Reaper THEN {"r_delete"} ELSE {"h_inc", "idle"}) :
          /\ Goto(g, next)
          /\ app' = [app EXCEPT ![g] = IF next = "idle" THEN NoService ELSE @]
    /\ UNCHANGED <<ServerLock, TrackedResourcesLock, dataVars>>

LockInit ==
    /\ MMInit
    /\ ServerInit
    /\ docker = [s \in Services |-> Absent]
    /\ pc = [g \in Goroutines |-> IF g = Reaper THEN "r_sleep" ELSE "idle"]

LockNext ==
    \E g \in Procs :
        \/ \E s \in Services : ConnAccept(g, s)
        \/ ServerLockLock(g)
        \/ TrackedResourcesLockLock(g)
        \/ SectionEnd(g)
        \/ KeyedLock(g)
        \/ KeyedAcquire(g)
        \/ DriverCalls(g)
        \/ KeyedUnlock(g)
        \/ KeyedRelease(g)

LockSpec == LockInit /\ [][LockNext]_vars

\* g1 has called Lock / RLock and cannot get the lock because g2 holds it
WaitsFor(g1, g2) ==
    \/ /\ pc[g1] \in ServerSections /\ ~HoldsRW(ServerLock, g1)
       /\ ~CanLock(ServerLock, pc[g1] \notin ReadSections)
       /\ HoldsRW(ServerLock, g2)
    \/ /\ pc[g1] \in TrackedSections /\ ~HoldsRW(TrackedResourcesLock, g1)
       /\ ~CanLock(TrackedResourcesLock, pc[g1] \notin ReadSections)
       /\ HoldsRW(TrackedResourcesLock, g2)
    \/ /\ pc[g1] \in {"L_wait", "S_wait"}
       /\ mmE[g1] # NoEntry /\ entryMutex[mmE[g1]] = g2
    \/ /\ pc[g1] \in {"L_lock", "S_call", "L_unlock", "S_unlock"}
       /\ mmMutex = g2

\* C19: locks are taken in the order keyed mutex, ServerLock, TrackedResourcesLock:
\* a goroutine calling ContainerAPILock.Lock holds neither ServerLock nor
\* TrackedResourcesLock, a goroutine calling ServerLock.Lock / RLock does not hold
\* TrackedResourcesLock, and no set of goroutines waits for locks in a cycle.
C19_LockOrder ==
    /\ \A g \in Procs :
        /\ pc[g] \in {"L_lock", "L_wait", "S_call", "S_wait"} =>
              ~HoldsRW(ServerLock, g) /\ ~HoldsRW(TrackedResourcesLock, g)
        /\ (pc[g] \in ServerSections /\ ~HoldsRW(ServerLock, g)) =>
              ~HoldsRW(TrackedResourcesLock, g)
    /\ \A C \in SUBSET Procs :
        C # {} => \E g1 \in C : \A g2 \in C : ~WaitsFor(g1, g2)

\* C19 witness: a chain of waits that is no cycle: g3 waits for the keyed mutex that
\* g2 holds, and g2 waits for ServerLock, which g1 holds.
C19_Witness ==
    \E g1, g2, g3 \in Procs :
        /\ pc[g3] \in {"L_wait", "S_wait"} /\ WaitsFor(g3, g2)
        /\ pc[g2] \in ServerSections /\ WaitsFor(g2, g1)

\* C20: a container whose image is not the configured one is removed and the call
\* goes on as for an absent container; when LaunchContainer is about to return nil,
\* the container of the service has the configured image and ServiceProxyHostPortMap
\* holds its host port, for a container that replaces a removed one a port that
\* FindOpenPort gave in this call.
C20_ImageMismatchRepaired ==
    /\ [](\A h \in Handlers :
            (pc[h] = "L_unlock" /\ ~err[h]) =>
               LET s == app[h]
               IN /\ docker[s].exists /\ docker[s].image = "cfg"
                  /\ ServiceProxyHostPortMap[s].ok
                  /\ ServiceProxyHostPortMap[s].m[ContainerPort(s)] = docker[s].binding
                  /\ (~cont[h].exists /\ cont[h].image = "other") =>
                        docker[s].binding \in PortChoices)
    /\ [][\A h \in Handlers :
            /\ (pc[h] = "L_list" /\ pc'[h] # "L_list" /\ ~err'[h]
                /\ docker[app[h]].exists /\ docker[app[h]].image # "cfg")
               => pc'[h] = "L_remove"
            /\ (pc[h] = "L_remove" /\ pc'[h] # "L_remove" /\ ~err'[h])
               => ~docker'[app[h]].exists /\ pc'[h] = "L_ports"]_vars

\* C20 witness: LaunchContainer removed a container with another image, created and
\* started a fresh one, and is about to return nil.
C20_Witness ==
    \E h \in Handlers :
        /\ pc[h] = "L_unlock" /\ ~err[h]
        /\ ~cont[h].exists /\ cont[h].image = "other"
        /\ docker[app[h]].status = "running"

\* ------------------------------------------------------------ the ledger on failure
\* C21: a LaunchContainer call that returns an error leaves TrackedResources as it
\* found it: what the call added for its service it has subtracted again.
C21_FailedLaunchLeavesLedger ==
    \A h \in Handlers : (pc[h] = "L_unrel" /\ err[h]) => net[h] = 0

\* ------------------------------------------------------------ the admission check
\* The admission check and the reservation of LaunchContainer (lines 507-532) applied
\* to a ledger in any state a history of reservations and releases can have left:
\* a reservations of A and b of B, b below zero after StopContainer calls for
\* containers that were never reserved.
TrackedChoices ==
    { [MilliCPU |-> a * ResourceRequest("A").MilliCPU + b * ResourceRequest("B").MilliCPU,
       MemoryMi |-> a * ResourceRequest("A").MemoryMi + b * ResourceRequest("B").MemoryMi,
       GpuMemoryMi |-> a * ResourceRequest("A").GpuMemoryMi
                       + b * ResourceRequest("B").GpuMemoryMi] :
      a \in 0..3, b \in -3..4 }

\* handler 1 is in LaunchContainer of a service, before the admission check: it holds
\* the keyed mutex, and the container of the service exists and is not running
AdmitInit ==
    /\ \E s \in Services :
          /\ app = [g \in Goroutines |-> IF g = 1 THEN s ELSE NoService]
          /\ mutexmap = [k \in Services |-> IF k = s THEN 1 ELSE NoEntry]
          /\ mmKey = [g \in Goroutines |-> IF g = 1 THEN s ELSE NoKey]
          /\ docker = [k \in Services |->
                IF k = s THEN [exists |-> TRUE, image |-> "cfg", status |-> "exited",
                               binding |-> EarlierPort]
                ELSE Absent]
          /\ cont = [g \in Goroutines |-> IF g = 1 THEN docker[s] ELSE Absent]
    /\ entryCount = [e \in EntryIds |-> IF e = 1 THEN 1 ELSE 0]
    /\ entryMutex = [e \in EntryIds |-> IF e = 1 THEN 1 ELSE NoProc]
    /\ mmMutex = NoProc
    /\ mmE = [g \in Goroutines |-> NoEntry]
    /\ pc = [g \in Goroutines |-> IF g = Reaper THEN "r_sleep"
                                  ELSE IF g = 1 THEN "L_check" ELSE "idle"]
    /\ TrackedResources \in TrackedChoices
    /\ ServiceConnCount = [s \in Services |-> NoCount]
    /\ ServiceKillTime = [s \in Services |-> NoTime]
    /\ ServiceProxyHostPortMap = [s \in Services |-> NoMap]
    /\ reserved = [s \in Services |-> 0]
    /\ net = [g \in Goroutines |-> 0]
    /\ errMsg = [g \in Goroutines |-> NoError]
    /\ err = [g \in Goroutines |-> FALSE]
    /\ polls = [g \in Goroutines |-> 0]
    /\ backendHostPort = [g \in Goroutines |-> NoPort]
    /\ toKill = {}
    /\ inspected = [g \in Goroutines |-> NoInspect]
    /\ FindIdle
    /\ accounted = [s \in Services |-> FALSE]
    /\ fresh = [s \in Services |-> FALSE]
    /\ stopCalled = [s \in Services |-> FALSE]
    /\ accepted = 1
    /\ ServerLock = Unlocked
    /\ TrackedResourcesLock = Unlocked

AdmitNext ==
    \/ LaunchCheck(1)
    \/ LaunchReserve(1)

AdmitSpec == AdmitInit /\ [][AdmitNext]_vars

\* the dimensions of Resources in the order of the struct, and the error of each
Dimensions == <<"MilliCPU", "MemoryMi", "GpuMemoryMi">>
DimensionError ==
    <<"not enough cpu resources to launch container",
      "not enough memory resources to launch container",
      "not enough video memory resources to launch container">>

\* the dimensions in which tracked + request exceeds the limit
Exceeding(tracked, request) ==
    {i \in 1..3 : tracked[Dimensions[i]] + request[Dimensions[i]] > Limits[Dimensions[i]]}

\* C22: the admission check commits all three dimensions or none. When tracked +
\* request is within the limits in every dimension, the call goes on to the
\* reservation, which adds all three components of the request; otherwise
\* TrackedResources stays as it is, the call returns, and its error names the first
\* exceeding dimension in the order CPU, memory, GPU memory.
C22_AdmissionAllOrNone ==
    [][\A h \in Handlers :
        LET req == ResourceRequest(app[h])
            over == Exceeding(TrackedResources, req)
        IN /\ (pc[h] = "L_check" /\ pc'[h] # "L_check") =>
                 /\ TrackedResources' = TrackedResources
                 /\ IF over = {}
                    THEN pc'[h] = "L_reserve" /\ ~err'[h] /\ errMsg'[h] = NoError
                    ELSE /\ pc'[h] = "L_unlock" /\ err'[h]
                         /\ \E i \in over : /\ \A j \in over : i <= j
                                            /\ errMsg'[h] = DimensionError[i]
           /\ (pc[h] = "L_reserve" /\ pc'[h] # "L_reserve") =>
                 \A i \in 1..3 : TrackedResources'[Dimensions[i]] =
                                    TrackedResources[Dimensions[i]] + req[Dimensions[i]]]_vars

\* C22 witness: the check has failed in memory and in GPU memory, not in CPU, and the
\* call returns the memory error with TrackedResources untouched.
C22_Witness ==
    \E h \in Handlers :
        /\ pc[h] = "L_unlock" /\ err[h] /\ net[h] = 0
        /\ Exceeding(TrackedResources, ResourceRequest(app[h])) = {2, 3}
        /\ errMsg[h] = DimensionError[2]

\* C23: StopContainer releases exactly on success. A call that returns nil has
\* subtracted the request of the service from TrackedResources once, after
\* ContainerStop and the wait for not-running succeeded; a call that returns an error
\* has left TrackedResources alone.
C23_StopReleasesOnSuccess ==
    /\ [](pc[Reaper] = "S_unrel" =>
            net[Reaper] = (IF err[Reaper] THEN 0 ELSE -1))
    /\ [][(pc[Reaper] \in StopBody /\ pc'[Reaper] # pc[Reaper]
           /\ TrackedResources' # TrackedResources)
          => /\ pc[Reaper] = "S_release" /\ ~err[Reaper]
             /\ docker[app[Reaper]].status # "running"
             /\ \A i \in 1..3 :
                   TrackedResources'[Dimensions[i]] =
                      TrackedResources[Dimensions[i]]
                         - ResourceRequest(app[Reaper])[Dimensions[i]]]_vars

\* C23 witness: StopContainer is about to return nil after it stopped the container
\* of a service that had one reservation, and TrackedResources is back at zero.
C23_Witness ==
    /\ pc[Reaper] = "S_unrel" /\ ~err[Reaper] /\ net[Reaper] = -1
    /\ reserved[app[Reaper]] = 0
    /\ docker[app[Reaper]].status = "stopped"
    /\ TrackedResources = [MilliCPU |-> 0, MemoryMi |-> 0, GpuMemoryMi |-> 0]

\* ------------------------------------------------------------ properties of StopContainer
\* C24: StopContainer refuses when connections are live. When ServiceConnCount[name]
\* is above 0 at its check, it returns an error at once: neither that step nor its
\* return (the deferred Unlock of the keyed mutex) calls docker or changes
\* ServiceConnCount, ServiceProxyHostPortMap or TrackedResources.
C24_StopRefusesWhenCounted ==
    /\ [][(pc[Reaper] = "S_check" /\ pc'[Reaper] # "S_check" /\ Count(app[Reaper]) > 0)
          => /\ pc'[Reaper] = "S_unlock" /\ err'[Reaper]
             /\ UNCHANGED <<docker, ServiceConnCount, ServiceProxyHostPortMap,
                            TrackedResources>>]_vars
    /\ [][(pc[Reaper] \in {"S_unlock", "S_unrel"} /\ pc'[Reaper] # pc[Reaper])
          => /\ pc'[Reaper] \in {"S_unrel", "r_delete"}
             /\ UNCHANGED <<docker, ServiceConnCount, ServiceProxyHostPortMap,
                            TrackedResources>>]_vars

\* C24 witness: StopContainer has refused for a service with a counted connection,
\* whose container runs on, and is about to return the error.
C24_Witness ==
    /\ pc[Reaper] = "S_unrel" /\ err[Reaper]
    /\ errMsg[Reaper] = "container has active connections"
    /\ net[Reaper] = 0
    /\ ServiceConnCount[app[Reaper]] = 1
    /\ docker[app[Reaper]].status = "running"

\* ------------------------------------------------------------ properties of the reaper
\* C25: the reaper does not spin on a failing stop. When it has processed a service
\* of its snapshot, ServiceKillTime has no entry for the service, whatever
\* StopContainer returned; StopContainer is called only for a service that has an
\* entry; and an entry comes into being only when a connection of the service closes.
C25_NoSpinOnFailingStop ==
    /\ [][(pc[Reaper] = "r_delete" /\ pc'[Reaper] # "r_delete")
          => ServiceKillTime'[app[Reaper]] = NoTime]_vars
    /\ [](pc[Reaper] = "S_call" => ServiceKillTime[app[Reaper]] # NoTime)
    /\ [][\A s \in Services :
            (ServiceKillTime[s] = NoTime /\ ServiceKillTime'[s] # NoTime)
            => \E h \in Counted(s) : pc'[h] = "idle"]_vars

\* C25 witness: the reaper has processed a service whose StopContainer returned an
\* error: the container still runs under the controller's accounting, no connection
\* is open, and the deadline is gone.
C25_Witness ==
    \E s \in Services :
        /\ pc[Reaper] = "r_sleep"
        /\ ServiceConnCount[s] = 0 /\ ~HandlerActive(s)
        /\ ServiceKillTime[s] = NoTime
        /\ accounted[s] /\ docker[s].status = "running"

\* C26: reaper eligibility is past-or-equal. Whenever the reaper is about to sweep,
\* the services its sweep selects are exactly those with a deadline that is now or
\* earlier (time left 0 or Past) and a ServiceConnCount of 0; a service with cooldown
\* 0 is selected at the instant its last connection closes.
C26_EligiblePastOrEqual ==
    pc[Reaper] = "r_sleep" =>
        Eligible = {s \in Services :
                       /\ ServiceKillTime[s] = 0 \/ ServiceKillTime[s] = Past
                       /\ ServiceConnCount[s] = 0}

\* g holds the keyed mutex of service s: its ContainerAPILock.Lock(s) has returned and
\* its Unlock has not yet unlocked the sub-lock
HoldsKeyed(g, s) == mmKey[g] = s /\ \E e \in EntryIds : entryMutex[e] = g

\* C27: no controller or ledger lock is held across a driver call. A goroutine that
\* is inside a call of the docker daemon holds the keyed mutex of its service and
\* holds neither ServerLock nor TrackedResourcesLock, and the reaper calls
\* StopContainer with its read lock released.
C27_NoLockAcrossDriverCall ==
    /\ \A g \in Procs :
          pc[g] \in DriverSites =>
             /\ HoldsKeyed(g, app[g])
             /\ ~HoldsRW(ServerLock, g)
             /\ ~HoldsRW(TrackedResourcesLock, g)
    /\ pc[Reaper] \in {"S_call", "S_wait"} => ~HoldsRW(ServerLock, Reaper)

\* C27 witness: a handler is in ContainerStart and the reaper is in the docker calls
\* of StopContainer for another service, each holding its keyed mutex, while a third
\* goroutine is inside a closure of ServerLock.
C27_Witness ==
    \E g1, g2 \in Handlers :
        /\ pc[g1] = "L_start" /\ HoldsKeyed(g1, app[g1])
        /\ pc[Reaper] = "S_list" /\ HoldsKeyed(Reaper, app[Reaper])
        /\ app[Reaper] # app[g1]
        /\ g2 # g1 /\ ServerLock.w = g2

\* ------------------------------------------------------------ the port map
\* The proxy is started again after Service.Ports of the config was edited: a
\* container of the earlier run, with the configured image, can be bound for other
\* container ports than the config now declares (the proxy stops containers and
\* never removes one whose image matches).
RestartContainers ==
    InitContainers \cup
    {[exists |-> TRUE, image |-> "cfg", status |-> "running", binding |-> NoPort]}

RestartInit ==
    /\ MMInit
    /\ ServerInit
    /\ docker \in [Services -> RestartContainers]
    /\ pc = [g \in Goroutines |-> IF g = Reaper THEN "r_sleep" ELSE "idle"]

RestartSpec == RestartInit /\ [][Next]_vars

\* C28: the port map is populated before any dial. A handler that is at the lookup
\* of the backend port finds an entry of ServiceProxyHostPortMap for its service that
\* holds a host port for the container port, and the port it dials is never -1.
C28_PortMapBeforeDial ==
    \A h \in Handlers :
        /\ pc[h] = "h_lookup" =>
              LET pm == ServiceProxyHostPortMap[app[h]]
              IN /\ pm.ok
                 /\ ContainerPort(app[h]) \in DOMAIN pm.m
                 /\ pm.m[ContainerPort(app[h])] # NoPort
        /\ pc[h] \in {"h_dial", "h_copy"} => backendHostPort[h] # NoPort

\* ------------------------------------------------------------ MutexMap misuse
\* A goroutine calls Unlock(key) for a key that has no entry (a key it never locked):
\* the call panics, and the goroutine does nothing more
ClientUnlockAbsent(g, key) ==
    /\ pc[g] \in {"m_idle", "m_crit"}
    /\ UnlockPanic(g, key)
    /\ pc' = [pc EXCEPT ![g] = "m_panic"]
    /\ UNCHANGED srvVars

MisuseNext ==
    \/ ClientNext
    \/ \E g \in Clients : \E key \in Services : ClientUnlockAbsent(g, key)

MMMisuseSpec == ClientInit /\ [][MisuseNext]_vars

\* C29: Unlock of an absent key fails loudly. The call ends in a panic, the
\* registry mutex is free again afterwards, and the registry map, the entries of the
\* other keys, their counts and the holders of their sub-locks are what they were.
C29_UnlockAbsentPanics ==
    /\ [][\A g \in Clients :
            (pc'[g] = "m_panic" /\ pc[g] # "m_panic") =>
               /\ \E key \in Services : mutexmap[key] = NoEntry
               /\ mmMutex' = NoProc
               /\ UNCHANGED <<mutexmap, entryCount, entryMutex>>]_vars
    /\ [](\A g \in Clients : pc[g] = "m_panic" => mmMutex # g)

\* C29 witness: a goroutine has panicked in Unlock of an absent key while another
\* key is held by a second goroutine and awaited by a third (its entry counts 2).
C29_Witness ==
    \E g1, g2, g3 \in Clients :
        /\ pc[g1] = "m_panic"
        /\ pc[g2] = "m_crit" /\ pc[g3] = "m_wait" /\ mmKey[g3] = mmKey[g2]
        /\ entryCount[mutexmap[mmKey[g2]]] = 2
        /\ mmMutex = NoProc

\* ------------------------------------------------------------ the readiness wait
\* The readiness wait of LaunchContainer (lines 551-583) against a docker daemon whose
\* ContainerInspect may return anything: an error, or any State.Status with any
\* health status. State.Running is true for a running, paused or restarting container.
Observations ==
    {InspectError} \cup
    {[err |-> FALSE, status |-> st,
      running |-> st \in {"running", "paused", "restarting"}, health |-> hl] :
        st \in {"created", "running", "paused", "restarting", "exited"},
        hl \in {"none", "starting", "healthy", "unhealthy"}}

\* handler 1 is in LaunchContainer of a service, after ContainerStart (line 545) of a
\* container that existed and was not running: it holds the keyed mutex and the
\* reservation
ReadyInit ==
    /\ \E s \in Services :
          /\ app = [g \in Goroutines |-> IF g = 1 THEN s ELSE NoService]
          /\ mutexmap = [k \in Services |-> IF k = s THEN 1 ELSE NoEntry]
          /\ mmKey = [g \in Goroutines |-> IF g = 1 THEN s ELSE NoKey]
          /\ docker = [k \in Services |->
                IF k = s THEN [exists |-> TRUE, image |-> "cfg", status |-> "running",
                               binding |-> EarlierPort]
                ELSE Absent]
          /\ cont = [g \in Goroutines |->
                IF g = 1 THEN [exists |-> TRUE, image |-> "cfg", status |-> "exited",
                               binding |-> EarlierPort]
                ELSE Absent]
          /\ TrackedResources = ResourceRequest(s)
          /\ reserved = [k \in Services |-> IF k = s THEN 1 ELSE 0]
    /\ entryCount = [e \in EntryIds |-> IF e = 1 THEN 1 ELSE 0]
    /\ entryMutex = [e \in EntryIds |-> IF e = 1 THEN 1 ELSE NoProc]
    /\ mmMutex = NoProc
    /\ mmE = [g \in Goroutines |-> NoEntry]
    /\ pc = [g \in Goroutines |-> IF g = Reaper THEN "r_sleep"
                                  ELSE IF g = 1 THEN "L_ready" ELSE "idle"]
    /\ ServiceConnCount = [s \in Services |-> NoCount]
    /\ ServiceKillTime = [s \in Services |-> NoTime]
    /\ ServiceProxyHostPortMap = [s \in Services |-> NoMap]
    /\ net = [g \in Goroutines |-> IF g = 1 THEN 1 ELSE 0]
    /\ errMsg = [g \in Goroutines |-> NoError]
    /\ err = [g \in Goroutines |-> FALSE]
    /\ polls = [g \in Goroutines |-> 0]
    /\ backendHostPort = [g \in Goroutines |-> NoPort]
    /\ toKill = {}
    /\ inspected = [g \in Goroutines |-> NoInspect]
    /\ FindIdle
    /\ accounted = [s \in Services |-> FALSE]
    /\ fresh = [s \in Services |-> FALSE]
    /\ stopCalled = [s \in Services |-> FALSE]
    /\ accepted = 1
    /\ ServerLock = Unlocked
    /\ TrackedResourcesLock = Unlocked

\* line 556: ContainerInspect returns
ReadyInspect(h) ==
    /\ pc[h] = "L_ready"
    /\ \E o \in Observations : inspected' = [inspected EXCEPT ![h] = o]
    /\ Goto(h, "L_verdict")
    /\ UNCHANGED <<ServiceConnCount, ServiceKillTime, ServiceProxyHostPortMap,
                   TrackedResources, reserved, net, errMsg, docker, app, err, polls, cont,
                   backendHostPort, toKill, findVars, accounted, fresh, stopCalled, mmVars,
                   accepted, ServerLock, TrackedResourcesLock>>

\* lines 557-577: the rest of the iteration
ReadyEvaluate(h) ==
    /\ pc[h] = "L_verdict"
    /\ ReadyStep(h, inspected[h])
    /\ UNCHANGED <<ServiceConnCount, ServiceKillTime, ServiceProxyHostPortMap,
                   TrackedResources, reserved, net, errMsg, docker, app, cont,
                   backendHostPort, toKill, inspected, findVars, accounted, fresh,
                   stopCalled, mmVars, accepted, ServerLock, TrackedResourcesLock>>

ReadyNext ==
    \/ ReadyInspect(1)
    \/ ReadyEvaluate(1)

\* a ContainerInspect call returns, and the goroutine goes on after it
ReadySpec == ReadyInit /\ [][ReadyNext]_vars /\ WF_vars(ReadyNext)

\* the poll reports a ready container: status "running" and either no healthcheck
\* and running, or healthy
ReportsReady(o) ==
    /\ ~o.err /\ o.status = "running"
    /\ \/ o.health = "none" /\ o.running
       \/ o.health = "healthy"

\* C30: the readiness wait always terminates with the specified verdict. It makes
\* ReadinessPolls polls at most (100 in the source); it returns nil at the first poll
\* that reports a ready container, returns an error at once when a poll fails or
\* reports a status other than "running", and returns an error after the last poll
\* otherwise; it does not go on for ever.
C30_ReadinessWaitVerdict ==
    /\ [](\A h \in Handlers : pc[h] \in {"L_ready", "L_verdict"} =>
                                 polls[h] < ReadinessPolls)
    /\ [][\A h \in Handlers :
            (pc[h] = "L_verdict" /\ pc'[h] # "L_verdict") =>
               LET o == inspected[h]
               IN IF ReportsReady(o)
                  THEN pc'[h] = "L_d_ports" /\ ~err'[h]
                  ELSE IF o.err \/ o.status # "running"
                  THEN pc'[h] = "L_d_release" /\ err'[h]
                  ELSE IF polls[h] + 1 = ReadinessPolls
                  THEN pc'[h] = "L_d_release" /\ err'[h]
                  ELSE pc'[h] = "L_ready" /\ polls'[h] = polls[h] + 1 /\ ~err'[h]]_vars
    /\ \A h \in Handlers :
          (pc[h] = "L_ready") ~> (pc[h] \in {"L_d_ports", "L_d_release"})

\* C30 witness: the wait has given up after its last poll, whose container was
\* running with a health check that had not yet succeeded.
C30_Witness ==
    \E h \in Handlers :
        /\ pc[h] = "L_d_release" /\ err[h]
        /\ inspected[h].status = "running" /\ inspected[h].health = "starting"

\* ------------------------------------------------------------ FindOpenPort
\* lines 140-141, 144
rangeStart == 49152
rangeEnd == 65535
maxAttempts == 32

\* rand.Intn(rangeEnd-rangeStart) draws from 0 .. rangeEnd-rangeStart-1. The model
\* draws the offsets within StartSpread of either end of that interval, and within
\* StartSpread of the offset from which maxAttempts probes end exactly at rangeEnd.
StartSpread == 2
StartOffsets ==
    {n \in 0..(rangeEnd - rangeStart - 1) :
        \/ n <= StartSpread
        \/ n >= rangeEnd - rangeStart - 1 - StartSpread
        \/ /\ n >= rangeEnd - rangeStart - maxAttempts + 1 - StartSpread
           /\ n <= rangeEnd - rangeStart - maxAttempts + 1 + StartSpread}

\* the wrap-around left out
NextPortNoWrap(p) == p + 1

\* lines 149-152: the port to try after attemptPort p failed
NextPort(p) == IF p + 1 > rangeEnd THEN rangeStart ELSE p + 1

\* lines 140-144: the starting port is drawn and the loop is entered
FindRand(h) ==
    /\ pc[h] = "F_rand"
    /\ \E n \in StartOffsets : attemptPort' = rangeStart + n
    /\ attempts' = 0
    /\ probed' = << >>
    /\ found' = NoResult
    /\ Goto(h, "F_listen")
    /\ UNCHANGED <<ServiceConnCount, ServiceKillTime, ServiceProxyHostPortMap,
                   TrackedResources, reserved, net, errMsg, docker, app, err, polls, cont,
                   backendHostPort, toKill, inspected, accounted, fresh, stopCalled,
                   accepted, ServerLock, TrackedResourcesLock, mmVars>>

\* lines 145-157: one iteration of the loop. net.Listen on attemptPort fails or
\* succeeds as the host decides; on success the listener is closed and the port is
\* returned, on failure the next port is taken.
FindListen(h) ==
    /\ pc[h] = "F_listen"
    /\ attempts < maxAttempts
    /\ \E ok \in BOOLEAN :
          /\ probed' = Append(probed, [port |-> attemptPort, ok |-> ok])
          /\ IF ok
             THEN /\ found' = [port |-> attemptPort, err |-> FALSE]
                  /\ Goto(h, "F_done")
                  /\ UNCHANGED <<attemptPort, attempts>>
             ELSE /\ attemptPort' = NextPort(attemptPort)
                  /\ attempts' = attempts + 1
                  /\ Goto(h, "F_listen")
                  /\ UNCHANGED found
    /\ UNCHANGED <<ServiceConnCount, ServiceKillTime, ServiceProxyHostPortMap,
                   TrackedResources, reserved, net, errMsg, docker, app, err, polls, cont,
                   backendHostPort, toKill, inspected, accounted, fresh, stopCalled,
                   accepted, ServerLock, TrackedResourcesLock, mmVars>>

\* lines 145, 158: the loop ends after maxAttempts iterations; -1 and an error
FindExhausted(h) ==
    /\ pc[h] = "F_listen"
    /\ ~(attempts < maxAttempts)
    /\ found' = [port |-> -1, err |-> TRUE]
    /\ Goto(h, "F_done")
    /\ UNCHANGED <<attemptPort, attempts, probed, ServiceConnCount, ServiceKillTime,
                   ServiceProxyHostPortMap, TrackedResources, reserved, net, errMsg, docker,
                   app, err, polls, cont, backendHostPort, toKill, inspected, accounted,
                   fresh, stopCalled, accepted, ServerLock, TrackedResourcesLock, mmVars>>

\* handler 1 calls FindOpenPort (line 420); nothing else runs, as the caller holds
\* the write lock of ServerLock for the whole call
FindInit ==
    /\ MMInit
    /\ ServerInit
    /\ docker = [s \in Services |-> Absent]
    /\ pc = [g \in Goroutines |-> IF g = Reaper THEN "r_sleep"
                                  ELSE IF g = 1 THEN "F_rand" ELSE "idle"]

FindNext ==
    \/ FindRand(1)
    \/ FindListen(1)
    \/ FindExhausted(1)

FindSpec == FindInit /\ [][FindNext]_vars

\* C31: FindOpenPort stays in range and is bounded. Every port it probes lies in
\* [49152, 65535]; each probe after a failed one is the previous port plus one,
\* wrapping from 65535 to 49152; it makes at most 32 bind attempts; it returns at the
\* first successful bind, with the port that was bound and no error; and it returns
\* -1 with an error when all 32 attempts failed, and only then.
C31_FindOpenPortBounded ==
    /\ Len(probed) <= 32
    /\ \A k \in 1..Len(probed) : probed[k].port >= 49152 /\ probed[k].port <= 65535
    /\ \A k \in 2..Len(probed) :
          /\ ~probed[k - 1].ok
          /\ probed[k].port = IF probed[k - 1].port = 65535 THEN 49152
                              ELSE probed[k - 1].port + 1
    /\ \A h \in Handlers :
          pc[h] = "F_done" =>
             IF \E k \in 1..Len(probed) : probed[k].ok
             THEN /\ probed[Len(probed)].ok
                  /\ found = [port |-> probed[Len(probed)].port, err |-> FALSE]
                  /\ found.port >= 49152 /\ found.port <= 65535
             ELSE /\ Len(probed) = 32
                  /\ found = [port |-> -1, err |-> TRUE]
    /\ \A h \in Handlers :
          (pc[h] = "F_listen" /\ Len(probed) > 0) => ~probed[Len(probed)].ok

\* C31 witness: the call has returned port 49152 after the probe of 65535 failed and
\* the search wrapped around.
C31_Witness ==
    \E h \in Handlers :
        /\ pc[h] = "F_done" /\ found = [port |-> 49152, err |-> FALSE]
        /\ \E k \in 1..Len(probed) : probed[k].port = 65535 /\ ~probed[k].ok

\* ------------------------------------------------------------ MutexMap bookkeeping
\* C32: the holder-count invariant of MutexMap. Whenever the registry mutex is free,
\* the registry has an entry for a key exactly when some goroutine has done the
\* bookkeeping of Lock(key) and not yet the bookkeeping of its Unlock(key); the count
\* of that entry is the number of those goroutines (the holder and the waiters), and
\* so no entry in the map has a count of zero or less.
C32_HolderCount ==
    mmMutex = NoProc =>
        \A key \in Services :
            /\ (mutexmap[key] # NoEntry) <=> (Users(key) # {})
            /\ mutexmap[key] # NoEntry =>
                  /\ entryCount[mutexmap[key]] = Cardinality(Users(key))
                  /\ entryCount[mutexmap[key]] > 0

\* C32 witness: with the registry mutex free, one goroutine holds a key and another
\* waits for it, the count of the entry being 2, while a third goroutine, which had
\* evicted the previous entry of that key, has not yet unlocked the sub-lock of the
\* evicted entry.
C32_Witness ==
    /\ mmMutex = NoProc
    /\ \E g1, g2 \in Clients :
          /\ g1 # g2
          /\ ClientHolds(g1, mmKey[g1])
          /\ pc[g2] = "m_wait" /\ mmKey[g2] = mmKey[g1]
          /\ entryCount[mutexmap[mmKey[g1]]] = 2
    /\ \E g3 \in Clients :
          /\ pc[g3] = "m_rel"
          /\ mutexmap[mmKey[g3]] # NoEntry
          /\ mutexmap[mmKey[g3]] # mmE[g3]

====
